---- MODULE Spec2Model ----
(***************************************************************************)
(* Model of the Bybit notifier's WebSocketManager (src/websocket.go):      *)
(* the connection registry (StartConnection / StopConnection / StopAll),   *)
(* the supervising retry loop of each connection (runConnection,           *)
(* connectAndListen), and the three debounce pipelines (order, cancel,     *)
(* execution buffers with their time.AfterFunc timers and flush callbacks).*)
(*                                                                         *)
(* Time is counted in seconds (one tick of `now` = 1 s).                   *)
(* Goroutines interleave at the granularity of the critical sections the   *)
(* code takes: a step is one region held under wsm.mu, wsm.bufferMu or a   *)
(* buffer's own mu.                                                        *)
(***************************************************************************)
EXTENDS Integers, Sequences, FiniteSets, TLC

\* ---------------------------------------------------------------- bounds
NumAccounts == 2
MaxConns == 2
MaxEvents == 3
MaxBuffered == 2
MaxFaultEvents == 1
MaxMsgLen == 2
MaxCoins == 2
MaxOrders == 2
MaxSessions == 2
MaxTime == 4
MaxAttempts == 12

\* ------------------------------------------------------ program constants
OrderWindow == 2
ExecWindow == 300
InitialRetryDelay == 5
MaxRetryDelay == 300
MaxConsecutiveFailures == 10
CooldownDelay == 30
MaxRetries == 999999

Accounts == 1..NumAccounts
ConnIds == 1..MaxConns
EventIds == 1..MaxEvents
Kinds == {"order", "cancel", "exec"}

VARIABLES
    now,                \* wall clock, seconds
    connections,        \* wsm.connections: account -> connection object (0 = no entry)
    wsConn,             \* the WebSocketConnection objects ever created
    nConns,             \* number of WebSocketConnection objects created so far
    activeConnections,  \* the active_connections table of the account store
    pc,                 \* position of each connection's runConnection goroutine
    sock,               \* the socket dialled by the current connectAndListen call
    ret,                \* return value of the last StartConnection call
    nEvents,            \* number of buffered events (appends) created so far
    event,              \* the element / execution handed to add*ToBuffer
    buffers,            \* wsm.orderBuffers / cancelBuffers / executionBuffers
    buf,                \* the buffer objects ever created
    pend,               \* the append each read loop has in progress (0 = none)
    timer,              \* the time.AfterFunc timers and their callbacks
    flushed,            \* history: contents swapped out by flush callbacks
    sent,               \* history: notifications handed to sendNotification
    rpc, retry, retryDelay, consecutiveFailures, rStop, waitFor,
                        \* one runConnection loop in detail (backoff arithmetic)
    proc,               \* the process: "up" or "down"
    monitored,          \* the accounts that had an entry when the process last ended
    inp,                \* argument of a message handler studied on its own
    out,                \* what that handler did with it
    executionBuffer,    \* wsm.executionBuffers[account] of one account, in detail
    arrived,            \* history: what the position and wallet messages carried
    session             \* one connectAndListen call in detail

connVars == <<connections, wsConn, nConns, activeConnections, pc, sock, ret>>
bufVars == <<nEvents, event, buffers, buf, pend, timer, flushed, sent>>
retryVars == <<rpc, retry, retryDelay, consecutiveFailures, rStop, waitFor>>
envVars == <<proc, monitored, inp, out, executionBuffer, arrived, session>>
vars == <<now, connVars, bufVars, retryVars, envVars>>

NoConn == [AccountID |-> 0, Running |-> FALSE, StopChan |-> "open", Conn |-> FALSE]
NoEvent == [kind |-> "none", acct |-> 0, conn |-> 0, buf |-> 0, time |-> -1]
NoBuf == [orders |-> <<>>, timer |-> 0, lastWallet |-> "nil"]
NoTimer == [state |-> "none", deadline |-> 0, orders |-> <<>>, wallet |-> "nil", activeConn |-> 0]

Symbols == {"BTCUSD", "ETHUSD"}

\* no entry in wsm.executionBuffers; lastWallet is <<>> for nil, <<w>> for &w;
\* positions[s] = 0 for a symbol without entry
NoExecutionBuffer ==
    [exists |-> FALSE, timer |-> FALSE, deadline |-> 0, lastWallet |-> <<>>, positions |-> [s \in Symbols |-> 0]]

\* the buffer as it would be had it existed from the start
NoArrivals == [NoExecutionBuffer EXCEPT !.exists = TRUE]

\* no connectAndListen call made yet
NoSession ==
    [pc |-> "idle", attempt |-> -1, dials |-> 0, sock |-> "none", Conn |-> FALSE,
     ping |-> "none", stopping |-> 0, readErr |-> "", path |-> "", err |-> FALSE]

\* NewWebSocketManager: empty registry, empty buffer maps; the process is up; no
\* runConnection loop has run
InitRegistry ==
    /\ now = 0
    /\ connections = [a \in Accounts |-> 0]
    /\ wsConn = [c \in ConnIds |-> NoConn]
    /\ nConns = 0
    /\ activeConnections = {}
    /\ pc = [c \in ConnIds |-> "none"]
    /\ sock = [c \in ConnIds |-> "none"]
    /\ ret = "none"
    /\ nEvents = 0
    /\ event = [e \in EventIds |-> NoEvent]
    /\ buffers = [k \in Kinds |-> [a \in Accounts |-> 0]]
    /\ buf = [e \in EventIds |-> NoBuf]
    /\ pend = [c \in ConnIds |-> 0]
    /\ timer = [e \in EventIds |-> NoTimer]
    /\ flushed = {}
    /\ sent = {}
    /\ rpc = "top"
    /\ rStop = FALSE
    /\ waitFor = 0
    /\ proc = "up"
    /\ monitored = {}
    /\ arrived = NoArrivals
    /\ session = NoSession

\* the same with the locals of a runConnection loop at its start
InitManager ==
    /\ InitRegistry
    /\ retryDelay = InitialRetryDelay
    /\ consecutiveFailures = 0

Init ==
    /\ InitManager
    /\ retry = 0
    /\ inp = <<>>
    /\ out = <<>>
    /\ executionBuffer = NoExecutionBuffer

\* ------------------------------------------------------------- registry

\* close(conn.StopChan); conn.Running = false; conn.Conn.Close()
\* (the body both StopConnection and StopAll run under conn.mu); close of a closed
\* channel panics
CloseConn(w) ==
    IF w.Running
    THEN [w EXCEPT !.StopChan = IF @ = "open" THEN "closed" ELSE "closed twice",
                   !.Running = FALSE]
    ELSE w

\* the socket of connection c after conn.Conn.Close() by a stopper
SockAfterStop(c) ==
    IF wsConn[c].Running /\ wsConn[c].Conn /\ sock[c] = "open" THEN "closed" ELSE sock[c]

\* StartConnection without the "conexão já está ativa" test: the registry entry is
\* overwritten by a fresh connection
StartConnectionNoCheck(a) ==
    /\ nConns < MaxConns
    /\ nConns' = nConns + 1
    /\ wsConn' = [wsConn EXCEPT ![nConns + 1] =
                     [AccountID |-> a, Running |-> TRUE, StopChan |-> "open", Conn |-> FALSE]]
    /\ connections' = [connections EXCEPT ![a] = nConns + 1]
    /\ activeConnections' = activeConnections \cup {a}
    /\ pc' = [pc EXCEPT ![nConns + 1] = "top"]
    /\ ret' = "ok"
    /\ UNCHANGED <<sock, now, bufVars, retryVars, envVars>>

\* the stored flag is set before the account is looked up
StartAccountFlagFirst(a, found) ==
    IF connections[a] # 0
    THEN /\ ret' = "already active"
         /\ UNCHANGED <<connections, wsConn, nConns, activeConnections, pc, sock>>
         /\ UNCHANGED <<now, bufVars, retryVars, envVars>>
    ELSE IF ~found
    THEN /\ ret' = "not found"
         /\ activeConnections' = activeConnections \cup {a}
         /\ UNCHANGED <<connections, wsConn, nConns, pc, sock>>
         /\ UNCHANGED <<now, bufVars, retryVars, envVars>>
    ELSE /\ nConns < MaxConns
         /\ nConns' = nConns + 1
         /\ wsConn' = [wsConn EXCEPT ![nConns + 1] =
                          [AccountID |-> a, Running |-> TRUE, StopChan |-> "open", Conn |-> FALSE]]
         /\ connections' = [connections EXCEPT ![a] = nConns + 1]
         /\ activeConnections' = activeConnections \cup {a}
         /\ pc' = [pc EXCEPT ![nConns + 1] = "top"]
         /\ ret' = "ok"
         /\ UNCHANGED <<sock, now, bufVars, retryVars, envVars>>

\* StartConnection, found telling whether accountManager.GetAccount returns the account
StartAccount(a, found) ==
    IF connections[a] # 0
    THEN /\ ret' = "already active"
         /\ UNCHANGED <<connections, wsConn, nConns, activeConnections, pc, sock>>
         /\ UNCHANGED <<now, bufVars, retryVars, envVars>>
    ELSE IF ~found
    THEN /\ ret' = "not found"
         /\ UNCHANGED <<connections, wsConn, nConns, activeConnections, pc, sock>>
         /\ UNCHANGED <<now, bufVars, retryVars, envVars>>
    ELSE /\ nConns < MaxConns
         /\ nConns' = nConns + 1
         /\ wsConn' = [wsConn EXCEPT ![nConns + 1] =
                          [AccountID |-> a, Running |-> TRUE, StopChan |-> "open", Conn |-> FALSE]]
         /\ connections' = [connections EXCEPT ![a] = nConns + 1]
         /\ activeConnections' = activeConnections \cup {a}
         /\ pc' = [pc EXCEPT ![nConns + 1] = "top"]
         /\ ret' = "ok"
         /\ UNCHANGED <<sock, now, bufVars, retryVars, envVars>>

StartConnection(a) == \E found \in BOOLEAN : StartAccount(a, found)

\* timer.Stop() on every timer of the set ts: only a timer that has not fired is stopped
StopTimers(tm, ts) ==
    [e \in EventIds |-> IF e \in ts /\ tm[e].state = "armed"
                        THEN [tm[e] EXCEPT !.state = "stopped"] ELSE tm[e]]

\* the timers held by the buffers the three maps register for account a
MapTimers(a) ==
    {buf[buffers[k][a]].timer : k \in {kk \in Kinds : buffers[kk][a] # 0}} \ {0}

\* "Limpar buffers": stop the timers of the registered buffers, delete the entries
ClearBuffers(a) ==
    /\ timer' = StopTimers(timer, MapTimers(a))
    /\ buffers' = [k \in Kinds |-> [buffers[k] EXCEPT ![a] = 0]]

\* StopConnection without the "Limpar buffers" block
StopConnectionKeepBuffers(a) ==
    IF connections[a] = 0
    THEN UNCHANGED vars
    ELSE /\ wsConn' = [wsConn EXCEPT ![connections[a]] = CloseConn(@)]
         /\ sock' = [sock EXCEPT ![connections[a]] = SockAfterStop(connections[a])]
         /\ connections' = [connections EXCEPT ![a] = 0]
         /\ activeConnections' = activeConnections \ {a}
         /\ UNCHANGED <<nConns, pc, ret, now, retryVars, bufVars, envVars>>

StopConnection(a) ==
    IF connections[a] = 0
    THEN UNCHANGED vars
    ELSE /\ wsConn' = [wsConn EXCEPT ![connections[a]] = CloseConn(@)]
         /\ sock' = [sock EXCEPT ![connections[a]] = SockAfterStop(connections[a])]
         /\ connections' = [connections EXCEPT ![a] = 0]
         /\ ClearBuffers(a)
         /\ activeConnections' = activeConnections \ {a}
         /\ UNCHANGED <<nConns, pc, ret, now, retryVars, envVars>>
         /\ UNCHANGED <<nEvents, event, buf, pend, flushed, sent>>

\* StopAll without the replacement of the registry map
StopAllKeepEntries ==
    /\ \E a \in Accounts : connections[a] # 0
    /\ wsConn' = [c \in ConnIds |->
                    IF \E a \in Accounts : connections[a] = c THEN CloseConn(wsConn[c]) ELSE wsConn[c]]
    /\ sock' = [c \in ConnIds |->
                    IF \E a \in Accounts : connections[a] = c THEN SockAfterStop(c) ELSE sock[c]]
    /\ activeConnections' = activeConnections \ {a \in Accounts : connections[a] # 0}
    /\ UNCHANGED <<connections, nConns, pc, ret, now, bufVars, retryVars, envVars>>

StopAll ==
    /\ \E a \in Accounts : connections[a] # 0
    /\ wsConn' = [c \in ConnIds |->
                    IF \E a \in Accounts : connections[a] = c THEN CloseConn(wsConn[c]) ELSE wsConn[c]]
    /\ sock' = [c \in ConnIds |->
                    IF \E a \in Accounts : connections[a] = c THEN SockAfterStop(c) ELSE sock[c]]
    /\ activeConnections' = activeConnections \ {a \in Accounts : connections[a] # 0}
    /\ connections' = [a \in Accounts |-> 0]
    /\ UNCHANGED <<nConns, pc, ret, now, bufVars, retryVars, envVars>>

IsConnectionActive(a) == connections[a] # 0 /\ wsConn[connections[a]].Running

\* ------------------------------------------- supervising loop (coarse)

Stopped(c) == wsConn[c].StopChan = "closed"

\* what runConnection does with the result of connectAndListen (err = TRUE: error)
AfterConnect(c, err) ==
    IF Stopped(c) THEN "done" ELSE IF err THEN "backoff" ELSE "sleep"

\* the deferred close of connectAndListen: close the dialled socket, clear wsConn.Conn
ConnectExit(c, err) ==
    /\ sock' = [sock EXCEPT ![c] = IF @ = "open" THEN "closed" ELSE @]
    /\ wsConn' = [wsConn EXCEPT ![c].Conn = FALSE]
    /\ pc' = [pc EXCEPT ![c] = AfterConnect(c, err)]

\* top of the for loop: leave when StopChan is closed, else drop the stale socket
LoopTop(c) ==
    /\ pc[c] = "top"
    /\ IF Stopped(c)
       THEN /\ pc' = [pc EXCEPT ![c] = "done"]
            /\ UNCHANGED <<wsConn, sock>>
       ELSE /\ pc' = [pc EXCEPT ![c] = "dial"]
            /\ wsConn' = [wsConn EXCEPT ![c].Conn = FALSE]
            /\ sock' = [sock EXCEPT ![c] = IF wsConn[c].Conn /\ @ = "open" THEN "closed" ELSE @]
    /\ UNCHANGED <<connections, nConns, activeConnections, ret, now, bufVars, retryVars, envVars>>

\* dialer.Dial fails: connectAndListen returns the error before any socket exists
DialFail(c) ==
    /\ pc[c] = "dial"
    /\ pc' = [pc EXCEPT ![c] = AfterConnect(c, TRUE)]
    /\ UNCHANGED <<connections, wsConn, nConns, activeConnections, sock, ret, now, bufVars, retryVars, envVars>>

\* dialer.Dial succeeds: wsConn.Conn = conn (StopChan is not looked at here)
DialOk(c) ==
    /\ pc[c] = "dial"
    /\ sock' = [sock EXCEPT ![c] = "open"]
    /\ wsConn' = [wsConn EXCEPT ![c].Conn = TRUE]
    /\ pc' = [pc EXCEPT ![c] = "auth"]
    /\ UNCHANGED <<connections, nConns, activeConnections, ret, now, bufVars, retryVars, envVars>>

\* authenticate + subscribe succeed (they need the socket open)
AuthOk(c) ==
    /\ pc[c] = "auth"
    /\ sock[c] = "open"
    /\ pc' = [pc EXCEPT ![c] = "serve"]
    /\ UNCHANGED <<connections, wsConn, nConns, activeConnections, sock, ret, now, bufVars, retryVars, envVars>>

\* authenticate or subscribe fails: error return through the deferred close
AuthFail(c) ==
    /\ pc[c] = "auth"
    /\ ConnectExit(c, TRUE)
    /\ UNCHANGED <<connections, nConns, activeConnections, ret, now, bufVars, retryVars, envVars>>

\* read loop: StopChan closed (seen by the select, or after a failed read) -> return nil
ReadStopped(c) ==
    /\ pc[c] = "serve" /\ pend[c] = 0
    /\ Stopped(c)
    /\ ConnectExit(c, FALSE)
    /\ UNCHANGED <<connections, nConns, activeConnections, ret, now, bufVars, retryVars, envVars>>

\* read loop: ReadMessage fails while not stopped; normal / going-away close returns
\* nil, anything else returns an error
ReadEnd(c, err) ==
    /\ pc[c] = "serve" /\ pend[c] = 0
    /\ ~Stopped(c)
    /\ ConnectExit(c, err)
    /\ UNCHANGED <<connections, nConns, activeConnections, ret, now, bufVars, retryVars, envVars>>

\* the wait before the next attempt: the backoff select returns on StopChan,
\* time.Sleep after a clean close does not look at it
WaitOver(c) ==
    /\ pc[c] \in {"backoff", "sleep"}
    /\ pc' = [pc EXCEPT ![c] = IF pc[c] = "backoff" /\ Stopped(c) THEN "done" ELSE "top"]
    /\ UNCHANGED <<connections, wsConn, nConns, activeConnections, sock, ret, now, bufVars, retryVars, envVars>>

Loop(c) ==
    \/ LoopTop(c)
    \/ DialFail(c)
    \/ DialOk(c)
    \/ AuthOk(c)
    \/ AuthFail(c)
    \/ ReadStopped(c)
    \/ \E err \in BOOLEAN : ReadEnd(c, err)
    \/ WaitOver(c)

NextConn ==
    \/ \E a \in Accounts : StartConnection(a)
    \/ \E a \in Accounts : StopConnection(a)
    \/ StopAll
    \/ \E c \in ConnIds : Loop(c)

SpecConn == Init /\ [][NextConn]_vars

\* ------------------------------------------------- debounce pipelines

Window(k) == IF k = "exec" THEN ExecWindow ELSE OrderWindow

\* first half of addOrderToBuffer / addCancelToBuffer / addExecutionToBuffer, under
\* bufferMu: look the account's buffer up, create and register it when absent.
\* Called from the read loop of connection c while it dispatches a frame.
AppendLookup(c, k) ==
    /\ pc[c] = "serve" /\ pend[c] = 0
    /\ nEvents < MaxEvents
    /\ nEvents' = nEvents + 1
    /\ event' = [event EXCEPT ![nEvents + 1] =
                    [kind |-> k, acct |-> wsConn[c].AccountID, conn |-> c,
                     buf |-> IF buffers[k][wsConn[c].AccountID] # 0
                             THEN buffers[k][wsConn[c].AccountID] ELSE nEvents + 1,
                     time |-> -1]]
    /\ buffers' = [buffers EXCEPT ![k][wsConn[c].AccountID] = IF @ # 0 THEN @ ELSE nEvents + 1]
    /\ pend' = [pend EXCEPT ![c] = nEvents + 1]
    /\ UNCHANGED <<buf, timer, flushed, sent, now, connVars, retryVars, envVars>>

\* buffer.orders after the append (the execution buffer stores no element)
AppendedOrders(e) ==
    IF event[e].kind = "exec" THEN buf[event[e].buf].orders
    ELSE Append(buf[event[e].buf].orders, e)

\* the timers the append stops before it arms the new one: addOrderToBuffer arms the
\* timer of a first element without looking at buffer.timer
TimersStoppedByAppend(e) ==
    IF event[e].kind = "order" /\ Len(AppendedOrders(e)) = 1
    THEN {}
    ELSE {buf[event[e].buf].timer} \ {0}

\* second half, under buffer.mu: append, stop the old timer, arm a new one
AppendCommit(c) ==
    /\ pend[c] # 0
    /\ buf' = [buf EXCEPT ![event[pend[c]].buf] =
                  [@ EXCEPT !.orders = AppendedOrders(pend[c]), !.timer = pend[c]]]
    /\ timer' = [StopTimers(timer, TimersStoppedByAppend(pend[c])) EXCEPT ![pend[c]] =
                    [NoTimer EXCEPT !.state = "armed",
                                    !.deadline = now + Window(event[pend[c]].kind)]]
    /\ event' = [event EXCEPT ![pend[c]].time = now]
    /\ pend' = [pend EXCEPT ![c] = 0]
    /\ UNCHANGED <<nEvents, buffers, flushed, sent, now, connVars, retryVars, envVars>>

\* handleWalletMessage: a UNIFIED wallet is stored in the execution buffer if the
\* account has one; no timer is touched
HandleWallet(c) ==
    /\ pc[c] = "serve" /\ pend[c] = 0
    /\ buffers["exec"][wsConn[c].AccountID] # 0
    /\ buf[buffers["exec"][wsConn[c].AccountID]].lastWallet = "nil"
    /\ buf' = [buf EXCEPT ![buffers["exec"][wsConn[c].AccountID]].lastWallet = "ok"]
    /\ UNCHANGED <<nEvents, event, buffers, pend, timer, flushed, sent, now, connVars, retryVars, envVars>>

\* the runtime starts the AfterFunc callback in its own goroutine at the deadline
Fire(e) ==
    /\ timer[e].state = "armed"
    /\ now >= timer[e].deadline
    /\ timer' = [timer EXCEPT ![e].state = "fired"]
    /\ UNCHANGED <<nEvents, event, buffers, buf, pend, flushed, sent, now, connVars, retryVars, envVars>>

\* process*Buffer, first region (wsm.mu.RLock): the account must have a running entry
FlushCheck(e) ==
    /\ timer[e].state = "fired"
    /\ timer' = [timer EXCEPT ![e] =
                    IF connections[event[e].acct] = 0 \/ ~wsConn[connections[event[e].acct]].Running
                    THEN [@ EXCEPT !.state = "done"]
                    ELSE [@ EXCEPT !.state = "checked", !.activeConn = connections[event[e].acct]]]
    /\ UNCHANGED <<nEvents, event, buffers, buf, pend, flushed, sent, now, connVars, retryVars, envVars>>

\* the buffer the callback of timer e finds in the map of its pipeline
FlushBuffer(e) == buffers[event[e].kind][event[e].acct]

\* process*Buffer, second region (bufferMu, buffer.mu): order and cancel buffers are
\* swapped out and their entry deleted; the execution buffer is only copied
FlushSwap(e) ==
    /\ timer[e].state = "checked"
    /\ IF FlushBuffer(e) = 0
       THEN /\ timer' = [timer EXCEPT ![e].state = "done"]
            /\ UNCHANGED <<buffers, buf, flushed>>
       ELSE IF event[e].kind = "exec"
       THEN /\ timer' = [timer EXCEPT ![e].state = "swapped",
                                      ![e].wallet = buf[FlushBuffer(e)].lastWallet]
            /\ UNCHANGED <<buffers, buf, flushed>>
       ELSE IF buf[FlushBuffer(e)].orders = <<>>
       THEN /\ timer' = [timer EXCEPT ![e].state = "done"]
            /\ UNCHANGED <<buffers, buf, flushed>>
       ELSE /\ timer' = [timer EXCEPT ![e].state = "swapped",
                                      ![e].orders = buf[FlushBuffer(e)].orders]
            /\ buf' = [buf EXCEPT ![FlushBuffer(e)].orders = <<>>]
            /\ buffers' = [buffers EXCEPT ![event[e].kind][event[e].acct] = 0]
            /\ flushed' = flushed \cup {[kind |-> event[e].kind, acct |-> event[e].acct,
                                           orders |-> buf[FlushBuffer(e)].orders,
                                           time |-> now, timer |-> e]}
    /\ UNCHANGED <<nEvents, event, pend, sent, now, connVars, retryVars, envVars>>

\* process*Buffer, the rest, with no lock held: format and sendNotification on the
\* connection found by the check; the summary needs a wallet
FlushSend(e) ==
    /\ timer[e].state = "swapped"
    /\ timer' = [timer EXCEPT ![e].state = "done"]
    /\ sent' = IF event[e].kind = "exec" /\ timer[e].wallet = "nil"
               THEN sent
               ELSE sent \cup {[kind |-> event[e].kind, acct |-> event[e].acct,
                                  orders |-> timer[e].orders, timer |-> e,
                                  owner |-> event[e].conn,
                                  conn |-> timer[e].activeConn,
                                  live |-> ~Stopped(timer[e].activeConn)]}
    /\ UNCHANGED <<nEvents, event, buffers, buf, pend, flushed, now, connVars, retryVars, envVars>>

ArmedDue == \E e \in EventIds : timer[e].state = "armed" /\ timer[e].deadline <= now

Armed == {e \in EventIds : timer[e].state = "armed"}

\* one second passes; a timer that is due fires first. The clock is only read
\* through the deadlines of armed timers, so it is advanced while one is armed.
Tick ==
    /\ now < MaxTime
    /\ Armed # {}
    /\ ~ArmedDue
    /\ now' = now + 1
    /\ UNCHANGED <<connVars, bufVars, retryVars, envVars>>

\* nothing happens until the next deadline
Leap ==
    /\ ~ArmedDue
    /\ \E e \in Armed :
          /\ \A f \in Armed : timer[e].deadline <= timer[f].deadline
          /\ now' = timer[e].deadline
    /\ UNCHANGED <<connVars, bufVars, retryVars, envVars>>

\* a connection's loop on its way to the read loop
Connect(c) ==
    \/ LoopTop(c)
    \/ DialOk(c)
    \/ AuthOk(c)

\* no connection is between its start and its read loop
Settled == \A c \in ConnIds : pc[c] \notin {"top", "dial", "auth"}

\* the registry and the three pipelines. A started connection reaches its read loop
\* or is stopped before anything else happens (its dial touches no buffer), and a
\* start is issued for an account without an entry that the store returns (the
\* failed start changes nothing, see SpecConn and SpecStart).
Next ==
    \/ \E c \in ConnIds : Connect(c)
    \/ \E a \in Accounts : Settled /\ connections[a] = 0 /\ StartAccount(a, TRUE)
    \/ \E a \in Accounts : StopConnection(a)
    \/ StopAll
    \/ \E c \in ConnIds : Settled /\ ReadStopped(c)
    \/ \E c \in ConnIds, k \in Kinds :
          Settled /\ nEvents < MaxBuffered /\ AppendLookup(c, k)
    \/ \E c \in ConnIds : Settled /\ AppendCommit(c)
    \/ \E c \in ConnIds : Settled /\ HandleWallet(c)
    \/ \E e \in EventIds : Settled /\ Fire(e)
    \/ \E e \in EventIds : Settled /\ FlushCheck(e)
    \/ \E e \in EventIds : Settled /\ FlushSwap(e)
    \/ \E e \in EventIds : Settled /\ FlushSend(e)
    \/ Settled /\ Leap

Spec == Init /\ [][Next]_vars

\* starts, successful or not, among stops and appends; no timer fires, and a started
\* connection reaches its read loop before a stop or an append happens
NextStart ==
    \/ \E a \in Accounts : StartConnection(a)
    \/ \E a \in Accounts : Settled /\ StopConnection(a)
    \/ \E c \in ConnIds : Connect(c)
    \/ \E c \in ConnIds, k \in Kinds :
          Settled /\ nEvents < MaxBuffered /\ AppendLookup(c, k)
    \/ \E c \in ConnIds : Settled /\ AppendCommit(c)

SpecStart == Init /\ [][NextStart]_vars

\* the order and cancel pipelines of running connections against the clock
NextTime ==
    \/ StartAccount(1, TRUE)
    \/ \E c \in ConnIds : Connect(c)
    \/ \E c \in ConnIds, k \in {"order", "cancel"} : AppendLookup(c, k)
    \/ \E c \in ConnIds : AppendCommit(c)
    \/ \E e \in EventIds : Fire(e)
    \/ \E e \in EventIds : FlushCheck(e)
    \/ \E e \in EventIds : FlushSwap(e)
    \/ \E e \in EventIds : FlushSend(e)
    \/ Tick

SpecTime == Init /\ [][NextTime]_vars

\* ------------------------------------- runConnection: backoff arithmetic
\* One supervising loop with its locals (retry, retryDelay, consecutiveFailures);
\* rStop is its StopChan, waitFor the duration of the wait it is in.

\* for retry := 0; retry < maxRetries; retry++ { select StopChan ... ; cooldown check
RunTopNoCooldown ==
    /\ rpc = "top"
    /\ retry < MaxRetries
    /\ retry < MaxAttempts \/ retry >= MaxRetries - MaxAttempts
    /\ rpc' = IF rStop THEN "done" ELSE "connect"
    /\ UNCHANGED <<retryDelay, consecutiveFailures, waitFor>>
    /\ UNCHANGED <<retry, rStop, now, connVars, bufVars, envVars>>

\* the loop goes on to connect without looking at StopChan
RunTopNoStopCheck ==
    /\ rpc = "top"
    /\ retry < MaxRetries
    /\ retry < MaxAttempts \/ retry >= MaxRetries - MaxAttempts
    /\ IF consecutiveFailures >= MaxConsecutiveFailures
       THEN /\ retryDelay' = InitialRetryDelay
            /\ consecutiveFailures' = 0
            /\ rpc' = "cooldown"
            /\ waitFor' = CooldownDelay
       ELSE /\ rpc' = "connect"
            /\ UNCHANGED <<retryDelay, consecutiveFailures, waitFor>>
    /\ UNCHANGED <<retry, rStop, now, connVars, bufVars, envVars>>

RunTop ==
    /\ rpc = "top"
    /\ retry < MaxRetries
    /\ retry < MaxAttempts \/ retry >= MaxRetries - MaxAttempts
    /\ IF rStop
       THEN /\ rpc' = "done"
            /\ UNCHANGED <<retryDelay, consecutiveFailures, waitFor>>
       ELSE IF consecutiveFailures >= MaxConsecutiveFailures
       THEN /\ retryDelay' = InitialRetryDelay
            /\ consecutiveFailures' = 0
            /\ rpc' = "cooldown"
            /\ waitFor' = CooldownDelay
       ELSE /\ rpc' = "connect"
            /\ UNCHANGED <<retryDelay, consecutiveFailures, waitFor>>
    /\ UNCHANGED <<retry, rStop, now, connVars, bufVars, envVars>>

\* select { case <-StopChan: return; case <-time.After(30s): }
CooldownOver ==
    /\ rpc = "cooldown"
    /\ \/ rStop /\ rpc' = "done"
       \/ waitFor = 0 /\ rpc' = "connect"
    /\ waitFor' = 0
    /\ UNCHANGED <<retry, retryDelay, consecutiveFailures, rStop, now, connVars, bufVars, envVars>>

\* connectAndListen returns; the variant leaves retryDelay as the failures left it
ConnectReturnsKeepDelay(err) ==
    /\ rpc = "connect"
    /\ IF err
       THEN IF rStop
            THEN /\ rpc' = "done"
                 /\ UNCHANGED <<retryDelay, consecutiveFailures, waitFor>>
            ELSE /\ consecutiveFailures' = consecutiveFailures + 1
                 /\ rpc' = "backoff"
                 /\ waitFor' = retryDelay
                 /\ UNCHANGED retryDelay
       ELSE /\ consecutiveFailures' = 0
            /\ UNCHANGED retryDelay
            /\ IF rStop
               THEN rpc' = "done" /\ UNCHANGED waitFor
               ELSE rpc' = "sleep" /\ waitFor' = retryDelay
    /\ UNCHANGED <<retry, rStop, now, connVars, bufVars, envVars>>

\* connectAndListen returns (err = TRUE: with an error)
ConnectReturns(err) ==
    /\ rpc = "connect"
    /\ IF err
       THEN IF rStop
            THEN /\ rpc' = "done"
                 /\ UNCHANGED <<retryDelay, consecutiveFailures, waitFor>>
            ELSE /\ consecutiveFailures' = consecutiveFailures + 1
                 /\ rpc' = "backoff"
                 /\ waitFor' = retryDelay
                 /\ UNCHANGED retryDelay
       ELSE /\ consecutiveFailures' = 0
            /\ retryDelay' = InitialRetryDelay
            /\ IF rStop
               THEN rpc' = "done" /\ UNCHANGED waitFor
               ELSE rpc' = "sleep" /\ waitFor' = InitialRetryDelay
    /\ UNCHANGED <<retry, rStop, now, connVars, bufVars, envVars>>

\* retryDelay after a completed backoff wait
NextRetryDelay(d) == IF d < MaxRetryDelay THEN d * 2 ELSE d

\* select { case <-StopChan: return; case <-time.After(retryDelay): double }
BackoffOver ==
    /\ rpc = "backoff"
    /\ \/ /\ rStop
          /\ rpc' = "done"
          /\ UNCHANGED <<retry, retryDelay>>
       \/ /\ waitFor = 0
          /\ retryDelay' = NextRetryDelay(retryDelay)
          /\ retry' = retry + 1
          /\ rpc' = "top"
    /\ waitFor' = 0
    /\ UNCHANGED <<consecutiveFailures, rStop, now, connVars, bufVars, envVars>>

\* time.Sleep(initialRetryDelay) after a clean close
SleepOver ==
    /\ rpc = "sleep"
    /\ waitFor = 0
    /\ retry' = retry + 1
    /\ rpc' = "top"
    /\ waitFor' = 0
    /\ UNCHANGED <<retryDelay, consecutiveFailures, rStop, now, connVars, bufVars, envVars>>

\* a stopper closes the loop's StopChan
RunStop ==
    /\ ~rStop
    /\ rpc # "done"
    /\ rStop' = TRUE
    /\ UNCHANGED <<rpc, retry, retryDelay, consecutiveFailures, waitFor, now, connVars, bufVars, envVars>>

\* the waits of the loop, and those that select on StopChan
Waits == {"cooldown", "backoff", "sleep"}
StopWaits == {"cooldown", "backoff"}

\* the duration of the current wait runs out. A select on StopChan wakes as soon as
\* the channel is closed, so no more of its wait elapses; time.Sleep has no such case.
Elapse ==
    /\ rpc \in Waits
    /\ waitFor > 0
    /\ ~(rStop /\ rpc \in StopWaits)
    /\ waitFor' = 0
    /\ UNCHANGED <<rpc, retry, retryDelay, consecutiveFailures, rStop, now, connVars, bufVars, envVars>>

\* retry < maxRetries is false: the for loop ends and runConnection returns
RunEnd ==
    /\ rpc = "top"
    /\ retry >= MaxRetries
    /\ rpc' = "exhausted"
    /\ UNCHANGED <<retry, retryDelay, consecutiveFailures, rStop, waitFor, now, connVars, bufVars, envVars>>

NextRetry ==
    \/ RunTop
    \/ Elapse
    \/ CooldownOver
    \/ \E err \in BOOLEAN : ConnectReturns(err)
    \/ BackoffOver
    \/ SleepOver
    \/ RunStop

SpecRetry == Init /\ [][NextRetry]_vars

\* the loop at the head of one of its last MaxAttempts iterations, every earlier
\* iteration having ended in a clean close
InitLate ==
    /\ InitManager
    /\ retry = MaxRetries - MaxAttempts
    /\ inp = <<>>
    /\ out = <<>>
    /\ executionBuffer = NoExecutionBuffer

NextRetryLate ==
    \/ RunTop
    \/ Elapse
    \/ CooldownOver
    \/ \E err \in BOOLEAN : ConnectReturns(err)
    \/ BackoffOver
    \/ SleepOver
    \/ RunStop
    \/ RunEnd

SpecRetryLate == InitLate /\ [][NextRetryLate]_vars

\* ============================================================ properties

EvTime(e) == event[e].time

InSeq(e, s) == \E i \in 1..Len(s) : s[i] = e

\* consecutive elements of s were appended less than the window apart
IsBurst(s) == \A i \in 2..Len(s) : EvTime(s[i]) - EvTime(s[i - 1]) < OrderWindow

\* C1: order updates appended each within 2 s of the previous one are delivered by one
\* flush, which runs once the window after the last of them has elapsed and holds the
\* elements once each in arrival order: a flush of a burst is never earlier than 2 s
\* after its last element, and no element is in two flushes.
C1_BurstFlushedOnceAfterWindow ==
    /\ \A f \in flushed :
          (f.kind = "order" /\ IsBurst(f.orders)) =>
             /\ f.time >= EvTime(f.orders[Len(f.orders)]) + OrderWindow
             /\ \A i, j \in 1..Len(f.orders) : i < j => f.orders[i] < f.orders[j]
    /\ \A f, g \in flushed :
          (f # g /\ f.kind = "order" /\ g.kind = "order") =>
             ~\E e \in EventIds : InSeq(e, f.orders) /\ InSeq(e, g.orders)

\* C2: an element appended while the account's connection stays active is never lost
\* and never duplicated, however the append interleaves with a flush callback: it is
\* either waiting in the buffer the map registers or in exactly one flush.
C2_NoElementLostOrDuplicated ==
    \A e \in EventIds :
       (/\ event[e].kind \in {"order", "cancel"}
        /\ EvTime(e) >= 0
        /\ connections[event[e].acct] = event[e].conn
        /\ ~Stopped(event[e].conn)) =>
          \/ /\ buffers[event[e].kind][event[e].acct] = event[e].buf
             /\ InSeq(e, buf[event[e].buf].orders)
             /\ ~\E f \in flushed : InSeq(e, f.orders)
          \/ Cardinality({f \in flushed : InSeq(e, f.orders)}) = 1

\* C3: every append restarts the debounce window, so an order or cancel flush never
\* takes the buffer sooner than 2 s after the most recent element appended to it.
C3_FlushAfterQuietWindow ==
    \A f \in flushed :
       f.kind \in {"order", "cancel"} =>
          \A i \in 1..Len(f.orders) : f.time >= EvTime(f.orders[i]) + OrderWindow

\* the supervising loops of account a that have not been told to stop and have not ended
LiveLoops(a) ==
    {c \in ConnIds : wsConn[c].AccountID = a /\ ~Stopped(c) /\ pc[c] \notin {"none", "done"}}

OpenSockets(a) == {c \in ConnIds : wsConn[c].AccountID = a /\ sock[c] = "open"}

\* C5: an account never has more than one open WebSocket at a time, whatever the
\* sequence of starts, stops and stop-then-start.
C5_OneOpenSocketPerAccount ==
    \A a \in Accounts : Cardinality(OpenSockets(a)) <= 1

\* what the spec promises of a stop of account a, the entry being connections[a]
StopPost(a) ==
    /\ wsConn'[connections[a]].StopChan = "closed"
    /\ ~wsConn'[connections[a]].Running
    /\ (wsConn[connections[a]].Conn /\ sock[connections[a]] = "open")
          => sock'[connections[a]] = "closed"
    /\ connections'[a] = 0
    /\ \A k \in Kinds : buffers'[k][a] = 0
    /\ \A e \in MapTimers(a) : timer'[e].state # "armed"
    /\ a \notin activeConnections'

C7_StopAllLikeStop ==
    [][StopAll => \A a \in Accounts : connections[a] # 0 => StopPost(a)]_vars

\* C8: a flush sends only for the connection under which its timer was armed; when
\* that connection has been stopped, and also when the account was started again
\* since, the callback discards and sends nothing.
C8_FlushOnlyForOwner ==
    \A s \in sent : s.conn = s.owner

\* C9: no flush notification goes out on a connection whose stop has returned.
C9_NoSendAfterStop ==
    \A s \in sent : s.live

\* C10: the delay applied between failed attempts never exceeds 300 s.
C10_BackoffCapped ==
    rpc = "backoff" => waitFor <= MaxRetryDelay

\* ------------------------------------------------------ faults (panics)

\* A fault that would end every goroutine of the process
ServeFaultUncaught(c) ==
    /\ pc[c] \in {"auth", "serve"}
    /\ pend[c] = 0
    /\ pc' = [d \in ConnIds |-> IF pc[d] = "none" THEN "none" ELSE "done"]
    /\ sock' = [d \in ConnIds |-> IF sock[d] = "open" THEN "closed" ELSE sock[d]]
    /\ UNCHANGED <<wsConn, connections, nConns, activeConnections, ret, now, bufVars, retryVars, envVars>>

\* a panic in connectAndListen after the dial, outside handleMessage: the deferred
\* close runs, the deferred recover turns the panic into the returned error
ServeFault(c) ==
    /\ pc[c] \in {"auth", "serve"}
    /\ pend[c] = 0
    /\ ConnectExit(c, TRUE)
    /\ UNCHANGED <<connections, nConns, activeConnections, ret, now, bufVars, retryVars, envVars>>

\* a panic inside handleMessage, here in addOrderToBuffer after the element was
\* appended and before its timer is armed: the deferred Unlock releases buffer.mu,
\* the recover of the handler swallows the panic, the read loop reads the next frame
HandlerFault(c) ==
    /\ pc[c] = "serve"
    /\ pend[c] # 0
    /\ event[pend[c]].kind = "order"
    /\ buf' = [buf EXCEPT ![event[pend[c]].buf].orders = AppendedOrders(pend[c])]
    /\ event' = [event EXCEPT ![pend[c]].time = now]
    /\ pend' = [pend EXCEPT ![c] = 0]
    /\ UNCHANGED <<nEvents, buffers, timer, flushed, sent, now, connVars, retryVars, envVars>>

\* running connections that serve, fail by a fault and retry, with an append in progress
NextFault ==
    \/ \E a \in Accounts : StartConnection(a)
    \/ \E c \in ConnIds : Connect(c)
    \/ \E c \in ConnIds : WaitOver(c)
    \/ \E c \in ConnIds : nEvents < MaxFaultEvents /\ AppendLookup(c, "order")
    \/ \E c \in ConnIds : AppendCommit(c)
    \/ \E c \in ConnIds : ServeFault(c)
    \/ \E c \in ConnIds : HandlerFault(c)

SpecFault == Init /\ [][NextFault]_vars

\* nothing of an account other than a changes in the step
OtherAccountsUnchanged(a) ==
    /\ connections' = connections
    /\ activeConnections' = activeConnections
    /\ \A d \in ConnIds :
          wsConn[d].AccountID # a =>
             /\ wsConn'[d] = wsConn[d]
             /\ pc'[d] = pc[d]
             /\ sock'[d] = sock[d]
             /\ pend'[d] = pend[d]
    /\ \A b \in Accounts \ {a} : \A k \in Kinds : buffers'[k][b] = buffers[k][b]
    /\ \A e \in EventIds :
          event[e].acct # a =>
             /\ event'[e] = event[e]
             /\ buf'[e] = buf[e]
             /\ timer'[e] = timer[e]

\* the fault of connection c became a failed attempt
FailedAttempt(c) ==
    /\ pc'[c] = IF Stopped(c) THEN "done" ELSE "backoff"
    /\ ~wsConn'[c].Conn
    /\ sock'[c] # "open"

\* C14 (as stated): every fault raised while a connection is served becomes a failed
\* attempt of that account (socket reference cleared, loop on its way to the next
\* attempt) and changes nothing of any other account.
C14_FaultBecomesFailedAttempt ==
    [][\A c \in ConnIds :
          (ServeFault(c) \/ HandlerFault(c)) =>
             (FailedAttempt(c) /\ OtherAccountsUnchanged(wsConn[c].AccountID))]_vars

\* C14 (amended): a fault raised in the session outside the message handler becomes
\* a failed attempt of that account; a fault raised inside the message handler is
\* caught there and the connection keeps serving with its socket; neither changes
\* anything of any other account.
C14_FaultContained ==
    [][\A c \in ConnIds :
          /\ ServeFault(c) =>
                (FailedAttempt(c) /\ OtherAccountsUnchanged(wsConn[c].AccountID))
          /\ HandlerFault(c) =>
                /\ pc'[c] = "serve" /\ wsConn'[c] = wsConn[c] /\ sock'[c] = sock[c]
                /\ OtherAccountsUnchanged(wsConn[c].AccountID)]_vars

\* a session fault put a connection in backoff while another account's connection
\* is serving
C14_Witness ==
    \E c, d \in ConnIds :
       /\ pc[c] = "backoff" /\ ~wsConn[c].Conn /\ sock[c] = "closed"
       /\ wsConn[d].AccountID # wsConn[c].AccountID
       /\ pc[d] = "serve" /\ sock[d] = "open"

\* ------------------------------------------------- process end and start

\* the accounts with an entry in the registry
Registered == {a \in Accounts : connections[a] # 0}

\* the memory of the process is gone: registry, connection objects, goroutines, sockets
MemoryLost ==
    /\ connections' = [a \in Accounts |-> 0]
    /\ wsConn' = [c \in ConnIds |-> NoConn]
    /\ nConns' = 0
    /\ pc' = [c \in ConnIds |-> "none"]
    /\ sock' = [c \in ConnIds |-> "none"]

\* menu option 9: wsManager.StopAll(); return
Quit ==
    /\ proc = "up"
    /\ proc' = "down"
    /\ monitored' = Registered
    /\ activeConnections' = activeConnections \ Registered
    /\ MemoryLost
    /\ UNCHANGED <<ret, now, bufVars, retryVars, session, inp, out, executionBuffer, arrived>>

\* the process ends by any other path (killed, terminal closed, crash): no code runs
Kill ==
    /\ proc = "up"
    /\ proc' = "down"
    /\ monitored' = Registered
    /\ MemoryLost
    /\ UNCHANGED <<activeConnections, ret, now, bufVars, retryVars, session, inp, out, executionBuffer, arrived>>

\* position of account a among the accounts GetActiveConnections returns
Rank(a) == Cardinality({b \in activeConnections : b <= a})

\* main: NewWebSocketManager, then RestoreConnections starts every account whose
\* active flag is stored
Boot ==
    /\ proc = "down"
    /\ Cardinality(activeConnections) <= MaxConns
    /\ proc' = "up"
    /\ connections' = [a \in Accounts |-> IF a \in activeConnections THEN Rank(a) ELSE 0]
    /\ wsConn' = [c \in ConnIds |->
                    IF \E a \in activeConnections : Rank(a) = c
                    THEN [AccountID |-> CHOOSE a \in activeConnections : Rank(a) = c,
                          Running |-> TRUE, StopChan |-> "open", Conn |-> FALSE]
                    ELSE NoConn]
    /\ nConns' = Cardinality(activeConnections)
    /\ pc' = [c \in ConnIds |-> IF c <= Cardinality(activeConnections) THEN "top" ELSE "none"]
    /\ UNCHANGED <<activeConnections, sock, ret, monitored, now, bufVars, retryVars, session, inp, out, executionBuffer, arrived>>

\* the registry over the lifetimes of the process
NextProc ==
    \/ \E a \in Accounts : proc = "up" /\ StartAccount(a, TRUE)
    \/ \E a \in Accounts : proc = "up" /\ StopConnection(a)
    \/ \E c \in ConnIds : Connect(c)
    \/ \E c \in ConnIds : ReadStopped(c)
    \/ Quit
    \/ Kill
    \/ Boot

SpecProc == Init /\ [][NextProc]_vars

\* ------------------------------------------------ handleMessage

Ops == {"", "auth", "subscribe", "ping", "pong", "other"}
Topics == {"order", "execution", "position", "wallet"}
TopicOrder == <<"order", "execution", "position", "wallet">>

\* a text frame as far as handleMessage reads it: json says that it unmarshals into a
\* map, op is the string under "op" ("" when there is none), topic the string under
\* "topic", decodes says for each schema whether json.Unmarshal into it succeeds;
\* what is no JSON value unmarshals into nothing
Frames ==
    {frame \in [json : BOOLEAN, op : Ops, topic : Topics \cup {"", "other"},
                decodes : [Topics -> BOOLEAN]] :
        ~frame.json => /\ frame.op = ""
                       /\ frame.topic = ""
                       /\ \A t \in Topics : ~frame.decodes[t]}

\* control frames are passed on to the topic handlers like any other frame
HandlerOfNoControl(frame) ==
    IF frame.decodes["order"] /\ frame.topic = "order" THEN "handleOrderMessage"
    ELSE IF frame.decodes["execution"] /\ frame.topic = "execution"
         THEN "handleExecutionMessage"
    ELSE IF frame.decodes["position"] /\ frame.topic = "position"
         THEN "handlePositionMessage"
    ELSE IF frame.decodes["wallet"] /\ frame.topic = "wallet" THEN "handleWalletMessage"
    ELSE "none"

\* the handler handleMessage calls for a frame, "none" when it returns without a call
HandlerOf(frame) ==
    IF frame.json /\ frame.op \in {"auth", "subscribe", "ping", "pong"} THEN "none"
    ELSE IF frame.decodes["order"] /\ frame.topic = "order" THEN "handleOrderMessage"
    ELSE IF frame.decodes["execution"] /\ frame.topic = "execution"
         THEN "handleExecutionMessage"
    ELSE IF frame.decodes["position"] /\ frame.topic = "position"
         THEN "handlePositionMessage"
    ELSE IF frame.decodes["wallet"] /\ frame.topic = "wallet" THEN "handleWalletMessage"
    ELSE "none"

\* handleMessage on the frame inp
HandleMessage ==
    /\ ~out.done
    /\ out' = [done |-> TRUE, handler |-> HandlerOf(inp)]
    /\ UNCHANGED <<now, connVars, bufVars, retryVars, session, proc, monitored, inp, executionBuffer, arrived>>

InitFrame ==
    /\ InitManager
    /\ retry = 0
    /\ inp \in Frames
    /\ out = [done |-> FALSE, handler |-> "none"]
    /\ executionBuffer = NoExecutionBuffer

NextFrame == HandleMessage

SpecFrame == InitFrame /\ [][NextFrame]_vars

\* ------------------------------------------------ handleOrderMessage

Categories == {"inverse", "linear"}
RejectReasons == {"", "EC_NoError", "EC_PerCancelRequest", "EC_PostOnlyWillTakeLiquidity"}
OrderStatuses == {"Untriggered", "Deactivated", "New", "Cancelled"}
CreateTypes == {"CreateByUser", "CreateByStopOrder"}

\* the elements of an order message as far as the handler reads them; Quick stands
\* for 0 <= updatedTime - createdTime <= 3000 with both times parsed
OrderElements ==
    [Category : Categories, RejectReason : RejectReasons, OrderStatus : OrderStatuses,
     CreateType : CreateTypes, OrderType : {"Limit"}, CancelType : {""},
     StopOrderType : {""}, Quick : {FALSE}]

OrderMessages == UNION {[1..n -> OrderElements] : n \in 1..MaxMsgLen}

\* every rejection code passes
AcceptedAny(el) == TRUE

\* rejectReason is empty or one of the two accepted codes
Accepted(el) ==
    ~(el.RejectReason # "" /\ el.RejectReason # "EC_NoError"
         /\ el.RejectReason # "EC_PerCancelRequest")

IsFilled(el) == el.OrderStatus = "Filled" \/ el.OrderStatus = "PartiallyFilled"

\* an untriggered stop goes to the order buffer like a new order
RouteStopsBuffered(el) ==
    IF el.Category # "inverse" THEN "drop"
    ELSE IF ~Accepted(el) THEN "drop"
    ELSE IF el.OrderStatus = "Deactivated" THEN "processStopCancellation"
    ELSE IF el.CreateType = "CreateByStopOrder" THEN "drop"
    ELSE IF el.OrderStatus = "New" \/ el.OrderStatus = "Untriggered" THEN "addOrderToBuffer"
    ELSE IF el.OrderStatus = "Cancelled" THEN "addCancelToBuffer"
    ELSE "drop"

\* a filled Limit order goes to the order buffer however late its update
RouteFilledAnyTime(el) ==
    IF el.Category # "inverse" THEN "drop"
    ELSE IF ~Accepted(el) THEN "drop"
    ELSE IF el.OrderStatus = "Untriggered" THEN "processStopOrder"
    ELSE IF el.OrderStatus = "Deactivated" THEN "processStopCancellation"
    ELSE IF el.CreateType = "CreateByStopOrder" THEN "drop"
    ELSE IF el.OrderStatus = "New" \/ IsFilled(el) THEN "addOrderToBuffer"
    ELSE IF \/ el.OrderStatus = "Cancelled"
            \/ el.CancelType # "" /\ el.StopOrderType # "Stop" /\ el.OrderStatus # "Filled"
         THEN "addCancelToBuffer"
    ELSE "drop"

\* the cancel-buffer condition is tested before the order-buffer condition
RouteCancelFirst(el) ==
    IF el.Category # "inverse" THEN "drop"
    ELSE IF ~Accepted(el) THEN "drop"
    ELSE IF el.OrderStatus = "Untriggered" THEN "processStopOrder"
    ELSE IF el.OrderStatus = "Deactivated" THEN "processStopCancellation"
    ELSE IF el.CreateType = "CreateByStopOrder" THEN "drop"
    ELSE IF \/ el.OrderStatus = "Cancelled"
            \/ el.CancelType # "" /\ el.StopOrderType # "Stop" /\ el.OrderStatus # "Filled"
         THEN "addCancelToBuffer"
    ELSE IF \/ el.OrderStatus = "New"
            \/ el.OrderType = "Market" /\ IsFilled(el)
            \/ el.OrderType = "Limit" /\ IsFilled(el) /\ el.Quick
         THEN "addOrderToBuffer"
    ELSE "drop"

\* the created-by-stop filter comes before the two stop-status checks
RouteCreatedByStopFirst(el) ==
    IF el.Category # "inverse" THEN "drop"
    ELSE IF ~Accepted(el) THEN "drop"
    ELSE IF el.CreateType = "CreateByStopOrder" THEN "drop"
    ELSE IF el.OrderStatus = "Untriggered" THEN "processStopOrder"
    ELSE IF el.OrderStatus = "Deactivated" THEN "processStopCancellation"
    ELSE IF \/ el.OrderStatus = "New"
            \/ el.OrderType = "Market" /\ IsFilled(el)
            \/ el.OrderType = "Limit" /\ IsFilled(el) /\ el.Quick
         THEN "addOrderToBuffer"
    ELSE IF \/ el.OrderStatus = "Cancelled"
            \/ el.CancelType # "" /\ el.StopOrderType # "Stop" /\ el.OrderStatus # "Filled"
         THEN "addCancelToBuffer"
    ELSE "drop"

\* the body of the loop over orderMsg.Data: what is called for one element
Route(el) ==
    IF el.Category # "inverse" THEN "drop"
    ELSE IF ~Accepted(el) THEN "drop"
    ELSE IF el.OrderStatus = "Untriggered" THEN "processStopOrder"
    ELSE IF el.OrderStatus = "Deactivated" THEN "processStopCancellation"
    ELSE IF el.CreateType = "CreateByStopOrder" THEN "drop"
    ELSE IF \/ el.OrderStatus = "New"
            \/ el.OrderType = "Market" /\ IsFilled(el)
            \/ el.OrderType = "Limit" /\ IsFilled(el) /\ el.Quick
         THEN "addOrderToBuffer"
    ELSE IF \/ el.OrderStatus = "Cancelled"
            \/ el.CancelType # "" /\ el.StopOrderType # "Stop" /\ el.OrderStatus # "Filled"
         THEN "addCancelToBuffer"
    ELSE "drop"

\* the calls the handler makes for a message, in order, each with the index of its element
Dispatch(msg) ==
    LET Kept(i) == Route(msg[i]) # "drop"
        kept == SelectSeq([i \in 1..Len(msg) |-> i], Kept)
    IN  [j \in 1..Len(kept) |-> [idx |-> kept[j], call |-> Route(msg[kept[j]])]]

\* handleOrderMessage on the message inp
HandleOrderMessage ==
    /\ ~out.done
    /\ out' = [done |-> TRUE, calls |-> Dispatch(inp)]
    /\ UNCHANGED <<now, connVars, bufVars, retryVars, session, proc, monitored, inp, executionBuffer, arrived>>

InitRoute ==
    /\ InitManager
    /\ retry = 0
    /\ inp \in OrderMessages
    /\ out = [done |-> FALSE, calls |-> <<>>]
    /\ executionBuffer = NoExecutionBuffer

NextRoute == HandleOrderMessage

SpecRoute == InitRoute /\ [][NextRoute]_vars

\* ------------------------------------------------ locks

MaxTasks == 3

\* wsm.mu, the connection's mu, wsm.bufferMu and the mu of the account's order,
\* cancel and execution buffer
Locks == {"mu", "connMu", "bufferMu", "orderMu", "cancelMu", "executionMu"}

Op(op, lock) == [op |-> op, lock |-> lock]

\* add*ToBuffer: the lookup under bufferMu, then the append under the buffer's mu
AppendProgram(bufMu) ==
    <<Op("Lock", "bufferMu"), Op("Unlock", "bufferMu"), Op("Lock", bufMu), Op("Unlock", bufMu)>>

\* handlePositionMessage / handleWalletMessage: the buffer's mu inside bufferMu
UpdateProgram ==
    <<Op("Lock", "bufferMu"), Op("Lock", "executionMu"), Op("Unlock", "executionMu"),
      Op("Unlock", "bufferMu")>>

\* the callback takes the buffer's mu first and bufferMu inside it
FlushProgramBufferFirst(bufMu) ==
    <<Op("RLock", "mu"), Op("RUnlock", "mu"), Op("Lock", bufMu), Op("Lock", "bufferMu"),
      Op("Unlock", "bufferMu"), Op("Unlock", bufMu)>>

\* process*Buffer: the active check under mu.RLock, then the buffer's mu inside bufferMu
FlushProgram(bufMu) ==
    <<Op("RLock", "mu"), Op("RUnlock", "mu"), Op("Lock", "bufferMu"), Op("Lock", bufMu),
      Op("Unlock", bufMu), Op("Unlock", "bufferMu")>>

\* StopConnection on an account with an entry
StopProgram ==
    <<Op("Lock", "mu"), Op("Lock", "connMu"), Op("Unlock", "connMu"),
      Op("Lock", "bufferMu"), Op("Unlock", "bufferMu"), Op("Unlock", "mu")>>

StopAllProgram ==
    <<Op("Lock", "mu"), Op("Lock", "connMu"), Op("Unlock", "connMu"), Op("Unlock", "mu")>>

\* StartConnection, and StopConnection on an account without entry
StartProgram == <<Op("Lock", "mu"), Op("Unlock", "mu")>>

\* IsConnectionActive, and a flush callback that finds the connection stopped
ActiveProgram == <<Op("RLock", "mu"), Op("RUnlock", "mu")>>

\* runConnection and connectAndListen set and clear wsConn.Conn under the connection's mu
ListenProgram == <<Op("Lock", "connMu"), Op("Unlock", "connMu")>>

TaskKinds ==
    <<"StartConnection", "StopConnection", "StopAll", "IsConnectionActive",
      "connectAndListen", "addOrderToBuffer", "addCancelToBuffer", "addExecutionToBuffer",
      "handlePositionMessage", "processOrderBuffer", "processCancelBuffer",
      "processExecutionBuffer">>

Program(kind) ==
    CASE kind = "StartConnection" -> StartProgram
      [] kind = "StopConnection" -> StopProgram
      [] kind = "StopAll" -> StopAllProgram
      [] kind = "IsConnectionActive" -> ActiveProgram
      [] kind = "connectAndListen" -> ListenProgram
      [] kind = "addOrderToBuffer" -> AppendProgram("orderMu")
      [] kind = "addCancelToBuffer" -> AppendProgram("cancelMu")
      [] kind = "addExecutionToBuffer" -> AppendProgram("executionMu")
      [] kind = "handlePositionMessage" -> UpdateProgram
      [] kind = "processOrderBuffer" -> FlushProgram("orderMu")
      [] kind = "processCancelBuffer" -> FlushProgram("cancelMu")
      [] kind = "processExecutionBuffer" -> FlushProgram("executionMu")

Tasks == 1..MaxTasks

\* the goroutines that run at the same time, up to their order
TaskSets ==
    {tasks \in [Tasks -> 1..Len(TaskKinds)] :
        \A t \in Tasks : t + 1 \in Tasks => tasks[t] <= tasks[t + 1]}

ProgramOf(t) == Program(TaskKinds[inp[t]])

Finished(t) == out.pc[t] > Len(ProgramOf(t))

NextOp(t) == ProgramOf(t)[out.pc[t]]

\* the number of times task t has done op on lock so far
Done(t, op, lock) ==
    Cardinality({i \in 1..(out.pc[t] - 1) : ProgramOf(t)[i] = Op(op, lock)})

Holds(t, lock) == Done(t, "Lock", lock) > Done(t, "Unlock", lock)

HoldsRead(t, lock) == Done(t, "RLock", lock) > Done(t, "RUnlock", lock)

Free(lock) == \A t \in Tasks : ~Holds(t, lock) /\ ~HoldsRead(t, lock)

\* Lock returns when nobody holds the lock; RLock when no writer holds it or waits
\* for it
CanAcquire(t) ==
    /\ ~Finished(t)
    /\ \/ NextOp(t).op = "Lock" /\ Free(NextOp(t).lock)
       \/ /\ NextOp(t).op = "RLock"
          /\ \A u \in Tasks : ~Holds(u, NextOp(t).lock)
          /\ out.waiting = {}

Acquire(t) ==
    /\ CanAcquire(t)
    /\ out' = [out EXCEPT !.pc[t] = @ + 1, !.waiting = @ \ {t}]
    /\ UNCHANGED <<now, connVars, bufVars, retryVars, session, proc, monitored, inp, executionBuffer, arrived>>

\* Lock called on the RWMutex mu while it is held: the writer starts to wait
Announce(t) ==
    /\ ~Finished(t)
    /\ NextOp(t) = Op("Lock", "mu")
    /\ ~Free("mu")
    /\ t \notin out.waiting
    /\ out' = [out EXCEPT !.waiting = @ \cup {t}]
    /\ UNCHANGED <<now, connVars, bufVars, retryVars, session, proc, monitored, inp, executionBuffer, arrived>>

Release(t) ==
    /\ ~Finished(t)
    /\ NextOp(t).op \in {"Unlock", "RUnlock"}
    /\ out' = [out EXCEPT !.pc[t] = @ + 1]
    /\ UNCHANGED <<now, connVars, bufVars, retryVars, session, proc, monitored, inp, executionBuffer, arrived>>

InitLock ==
    /\ InitManager
    /\ retry = 0
    /\ inp \in TaskSets
    /\ out = [pc |-> [t \in Tasks |-> 1], waiting |-> {}]
    /\ executionBuffer = NoExecutionBuffer

NextLock ==
    \/ \E t \in Tasks : Acquire(t)
    \/ \E t \in Tasks : Announce(t)
    \/ \E t \in Tasks : Release(t)

SpecLock == InitLock /\ [][NextLock]_vars

\* ------------------------------------------------ read loop and notification sink

MaxFrames == 2

\* order frames of one inverse element with an empty rejection code
LoopFrames ==
    {<<el>> : el \in {x \in OrderElements : x.Category = "inverse" /\ x.RejectReason = ""}}

FrameQueues == UNION {[1..n -> LoopFrames] : n \in 1..MaxFrames}

\* sendNotification reaches http.Post for the calls that notify at once, when the
\* account has a webhook URL
PostsNow(calls, webhook) ==
    /\ webhook
    /\ \E j \in 1..Len(calls) :
          calls[j].call \in {"processStopOrder", "processStopCancellation"}

\* one turn of the read loop: conn.ReadMessage returns the next frame and
\* wsm.handleMessage runs on the loop's goroutine; a stop notification stays inside
\* sendDiscordWebhook until http.Post returns
ReadFrame ==
    /\ out.pc = "read"
    /\ out.next <= Len(inp)
    /\ LET calls == Dispatch(inp[out.next])
       IN  out' = [out EXCEPT !.next = @ + 1,
                              !.calls = calls,
                              !.pc = IF PostsNow(calls, out.webhook) THEN "post" ELSE "read"]
    /\ UNCHANGED <<now, connVars, bufVars, retryVars, session, proc, monitored, inp, executionBuffer, arrived>>

\* http.Post returns, with a response or an error; handleMessage returns to the loop
PostReturns ==
    /\ out.pc = "post"
    /\ \E ok \in BOOLEAN :
          out' = [out EXCEPT !.pc = "read",
                             !.delivered = IF ok THEN @ + 1 ELSE @]
    /\ UNCHANGED <<now, connVars, bufVars, retryVars, session, proc, monitored, inp, executionBuffer, arrived>>

InitLoop ==
    /\ InitManager
    /\ retry = 0
    /\ inp \in FrameQueues
    /\ \E webhook \in BOOLEAN :
          out = [pc |-> "read", next |-> 1, calls |-> <<>>, webhook |-> webhook,
                 delivered |-> 0]
    /\ executionBuffer = NoExecutionBuffer

NextLoop == ReadFrame \/ PostReturns

SpecLoop == InitLoop /\ [][NextLoop]_vars

QuickWindow == 3000

\* updatedTime - createdTime in ms, both times parsed
TimeDiffs == {0, 3000, 3001}

\* isLimitExecutedQuickly as far as it depends on the two times
ExecutedQuickly(timeDiff) == timeDiff >= 0 /\ timeDiff <= QuickWindow

\* single elements over all the fields the loop body reads
RouteCases ==
    {[Category |-> category, RejectReason |-> rejectReason, OrderStatus |-> orderStatus,
      CreateType |-> createType, OrderType |-> orderType, CancelType |-> cancelType,
      StopOrderType |-> stopOrderType, TimeDiff |-> timeDiff,
      Quick |-> ExecutedQuickly(timeDiff)] :
        category \in Categories,
        rejectReason \in {"", "EC_PostOnlyWillTakeLiquidity"},
        orderStatus \in OrderStatuses \cup {"Filled", "PartiallyFilled", "Rejected"},
        createType \in CreateTypes,
        orderType \in {"Limit", "Market"},
        cancelType \in {"", "CancelByUser"},
        stopOrderType \in {"", "Stop"},
        timeDiff \in TimeDiffs}

\* handleOrderMessage called with a message of one element
InitRouteOne ==
    /\ InitManager
    /\ retry = 0
    /\ inp \in {<<el>> : el \in RouteCases}
    /\ out = [done |-> FALSE, calls |-> <<>>]
    /\ executionBuffer = NoExecutionBuffer

SpecRouteOne == InitRouteOne /\ [][NextRoute]_vars

\* ---------------------------------------------------- execution buffer
\* handleWalletMessage, handlePositionMessage, handleExecutionMessage and
\* processExecutionBuffer on the execution buffer of one account whose connection
\* stays registered and running.

Coins == {"BTC", "ETH", "SOL"}

\* balances of the retained wallet and of an arriving payload are drawn from disjoint
\* sets, which shows in a merged list where each balance came from
RetainedBalances == {1, 2}
PayloadBalances == {3, 4}

AccountTypes == {"UNIFIED", "CONTRACT"}

\* []CoinBalance of at most MaxCoins entries, coin codes possibly repeated
CoinLists(B) == UNION {[1..n -> [Coin : Coins, UsdValue : B]] : n \in 0..MaxCoins}

WalletPayloads == [AccountType : AccountTypes, Coin : CoinLists(PayloadBalances)]

\* BybitWalletMessage.Data with one wallet
WalletMessages == {<<w>> : w \in WalletPayloads}

HasCoin(coins, coin) == \E i \in 1..Len(coins) : coins[i].Coin = coin

\* the balance processExecutionBuffer finds for a coin: the first entry with that
\* code, 0 without one
CoinValue(coins, coin) ==
    IF HasCoin(coins, coin)
    THEN LET first == CHOOSE i \in 1..Len(coins) :
                         /\ coins[i].Coin = coin
                         /\ \A k \in 1..(i - 1) : coins[k].Coin # coin
         IN coins[first].UsdValue
    ELSE 0

\* the new snapshot replaces the retained one
MergeWalletReplace(lastWallet, walletData) == <<walletData>>

\* the value stored in buffer.lastWallet for one UNIFIED wallet: the payload itself
\* while lastWallet is nil, else the payload with its coin list replaced by the old
\* coins absent from the payload followed by the payload's coins
MergeWallet(lastWallet, walletData) ==
    IF lastWallet # <<>>
    THEN LET Absent(oldCoin) == ~HasCoin(walletData.Coin, oldCoin.Coin)
             mergedCoins == SelectSeq(lastWallet[1].Coin, Absent) \o walletData.Coin
         IN <<[walletData EXCEPT !.Coin = mergedCoins]>>
    ELSE <<walletData>>

RECURSIVE WalletLoop(_, _)
\* the loop over walletMsg.Data
WalletLoop(buffer, data) ==
    IF data = <<>> THEN buffer
    ELSE IF Head(data).AccountType # "UNIFIED" THEN WalletLoop(buffer, Tail(data))
    ELSE IF ~buffer.exists THEN WalletLoop(buffer, Tail(data))
    ELSE WalletLoop([buffer EXCEPT !.lastWallet = MergeWallet(buffer.lastWallet, Head(data))],
                    Tail(data))

\* handleWalletMessage applied to the handler argument: a wallet message arrives at a
\* buffer that exists
WalletArrives ==
    /\ ~out.done
    /\ executionBuffer' = WalletLoop(executionBuffer, inp)
    /\ out' = [done |-> TRUE, before |-> executionBuffer.lastWallet]
    /\ UNCHANGED <<now, connVars, bufVars, retryVars, session, proc, monitored, inp, arrived>>

InitMerge ==
    /\ InitManager
    /\ retry = 0
    /\ inp \in WalletMessages
    /\ out = [done |-> FALSE, before |-> <<>>]
    /\ \E lastWallet \in {<<>>} \cup {<<[AccountType |-> "UNIFIED", Coin |-> coins]>> :
                                          coins \in CoinLists(RetainedBalances)} :
          executionBuffer = [NoExecutionBuffer EXCEPT !.exists = TRUE, !.lastWallet = lastWallet]

NextMerge == WalletArrives

SpecMerge == InitMerge /\ [][NextMerge]_vars

PositionSizes == {1, 2}
ExecTypes == {"Trade", "Funding"}

PositionElements == [Category : Categories, Symbol : Symbols, Size : PositionSizes]
PositionMessages == {<<p>> : p \in PositionElements}

ExecutionElements == [Category : Categories, ExecType : ExecTypes]
ExecutionMessages == {<<x>> : x \in ExecutionElements}

RECURSIVE PositionLoop(_, _)
\* the loop over posMsg.Data
PositionLoop(buffer, data) ==
    IF data = <<>> THEN buffer
    ELSE IF Head(data).Category # "inverse" THEN PositionLoop(buffer, Tail(data))
    ELSE IF ~buffer.exists THEN PositionLoop(buffer, Tail(data))
    ELSE PositionLoop([buffer EXCEPT !.positions[Head(data).Symbol] = Head(data).Size],
                      Tail(data))

\* addExecutionToBuffer: the buffer is created if absent, its timer armed or re-armed
AddExecutionToBuffer(buffer) ==
    [buffer EXCEPT !.exists = TRUE, !.timer = TRUE, !.deadline = now + ExecWindow]

RECURSIVE ExecutionLoopAnyType(_, _)
\* every inverse execution arms the timer
ExecutionLoopAnyType(buffer, data) ==
    IF data = <<>> THEN buffer
    ELSE IF Head(data).Category # "inverse" THEN ExecutionLoopAnyType(buffer, Tail(data))
    ELSE ExecutionLoopAnyType(AddExecutionToBuffer(buffer), Tail(data))

RECURSIVE ExecutionLoop(_, _)
\* the loop over execMsg.Data
ExecutionLoop(buffer, data) ==
    IF data = <<>> THEN buffer
    ELSE IF Head(data).Category # "inverse" THEN ExecutionLoop(buffer, Tail(data))
    ELSE IF Head(data).ExecType # "Trade" THEN ExecutionLoop(buffer, Tail(data))
    ELSE ExecutionLoop(AddExecutionToBuffer(buffer), Tail(data))

\* wallet messages that carry at most one coin (longer coin lists: SpecMerge)
PartialWallets == {walletMsg \in WalletMessages : Len(walletMsg[1].Coin) <= 1}

HandleWalletMessage ==
    /\ nEvents < MaxEvents
    /\ \E walletMsg \in PartialWallets :
          /\ inp' = walletMsg
          /\ executionBuffer' = WalletLoop(executionBuffer, walletMsg)
          /\ arrived' = WalletLoop(arrived, walletMsg)
    /\ nEvents' = nEvents + 1
    /\ UNCHANGED <<now, connVars, retryVars, session, proc, monitored, out>>
    /\ UNCHANGED <<event, buffers, buf, pend, timer, flushed, sent>>

HandlePositionMessage ==
    /\ nEvents < MaxEvents
    /\ \E posMsg \in PositionMessages :
          /\ inp' = posMsg
          /\ executionBuffer' = PositionLoop(executionBuffer, posMsg)
          /\ arrived' = PositionLoop(arrived, posMsg)
    /\ nEvents' = nEvents + 1
    /\ UNCHANGED <<now, connVars, retryVars, session, proc, monitored, out>>
    /\ UNCHANGED <<event, buffers, buf, pend, timer, flushed, sent>>

HandleExecutionMessage ==
    /\ nEvents < MaxEvents
    /\ \E execMsg \in ExecutionMessages :
          /\ inp' = execMsg
          /\ executionBuffer' = ExecutionLoop(executionBuffer, execMsg)
    /\ nEvents' = nEvents + 1
    /\ UNCHANGED <<now, connVars, retryVars, session, proc, monitored, out, arrived>>
    /\ UNCHANGED <<event, buffers, buf, pend, timer, flushed, sent>>

\* the callback empties the buffer as the order and cancel callbacks do
ProcessExecutionBufferClears ==
    /\ executionBuffer.exists
    /\ executionBuffer.timer
    /\ now >= executionBuffer.deadline
    /\ executionBuffer' = NoExecutionBuffer
    /\ out' = [done |-> TRUE,
               sent |-> executionBuffer.lastWallet # <<>>,
               lastWallet |-> executionBuffer.lastWallet,
               positions |-> executionBuffer.positions]
    /\ UNCHANGED <<now, connVars, bufVars, retryVars, session, proc, monitored, inp, arrived>>

\* the timer callback: what the summary is computed from; nothing is sent without a
\* wallet, and the buffer is kept
ProcessExecutionBuffer ==
    /\ executionBuffer.exists
    /\ executionBuffer.timer
    /\ now >= executionBuffer.deadline
    /\ executionBuffer' = [executionBuffer EXCEPT !.timer = FALSE]
    /\ out' = [done |-> TRUE,
               sent |-> executionBuffer.lastWallet # <<>>,
               lastWallet |-> executionBuffer.lastWallet,
               positions |-> executionBuffer.positions]
    /\ UNCHANGED <<now, connVars, bufVars, retryVars, session, proc, monitored, inp, arrived>>

SummaryDue == executionBuffer.timer /\ executionBuffer.deadline <= now

\* one second passes, unless the summary timer is due
SummaryTick ==
    /\ now < MaxTime
    /\ ~SummaryDue
    /\ now' = now + 1
    /\ UNCHANGED <<connVars, bufVars, retryVars, envVars>>

\* nothing arrives until the summary timer is due
SummaryLeap ==
    /\ executionBuffer.timer
    /\ ~SummaryDue
    /\ now' = executionBuffer.deadline
    /\ UNCHANGED <<connVars, bufVars, retryVars, envVars>>

InitSummary ==
    /\ InitManager
    /\ retry = 0
    /\ inp = <<>>
    /\ out = [done |-> FALSE, sent |-> FALSE, lastWallet |-> <<>>,
              positions |-> NoExecutionBuffer.positions]
    /\ executionBuffer = NoExecutionBuffer

NextSummary ==
    \/ HandleWalletMessage
    \/ HandlePositionMessage
    \/ HandleExecutionMessage
    \/ ProcessExecutionBuffer
    \/ SummaryTick
    \/ SummaryLeap

SpecSummary == InitSummary /\ [][NextSummary]_vars

\* ------------------------------------------------------- summary text
\* processExecutionBuffer from the copied wallet and positions to the text handed to
\* sendNotification. Amounts are whole dollars; a numeric string is the pair of what
\* strconv.ParseFloat returns for it.

DustThreshold == 10

Sides == {"Buy", "Sell"}
SummarySizes == {4, 20}
SummaryBalances == {5, 10, 40}

Number(v) == [err |-> FALSE, val |-> v]
NotANumber == [err |-> TRUE, val |-> 0]
WalletTotals == {NotANumber, Number(100)}
WalletBalanceTotals == {NotANumber, Number(200)}

SummaryPositionData == [Size : SummarySizes, Side : Sides]

\* buffer.positions: symbol -> *PositionData
SummaryPositions == UNION {[S -> SummaryPositionData] : S \in SUBSET Symbols}

SummaryWallets ==
    [TotalEquity : WalletTotals, TotalWalletBalance : WalletBalanceTotals,
     Coin : CoinLists(SummaryBalances)]

\* the symbol without its trailing USD
CoinOf(symbol) == IF symbol = "BTCUSD" THEN "BTC" ELSE IF symbol = "ETHUSD" THEN "ETH" ELSE symbol

\* a / b * 100 printed with %.2f, in hundredths of a percent
Percent(a, b) == ((a * 20000) \div b + 1) \div 2

\* a position counts when the balance of its coin is below the threshold too
IsValidPositionNoDust(lastWallet, symbol) == TRUE

\* the position is not skipped: the balance of its coin reaches the threshold
IsValidPosition(lastWallet, symbol) ==
    ~(CoinValue(lastWallet.Coin, CoinOf(symbol)) < DustThreshold)

\* calculatePositionValues and the lines of one coin message
CoinMessage(lastWallet, symbol, position) ==
    LET totalEquityPerCoin == CoinValue(lastWallet.Coin, CoinOf(symbol))
        protecaoUSD == IF position.Side = "Sell" THEN position.Size ELSE 0
        longUSD == IF position.Side = "Sell" THEN 0 ELSE position.Size
    IN [coin |-> CoinOf(symbol),
        symbol |-> symbol,
        total |-> totalEquityPerCoin,
        protegido |-> protecaoUSD,
        long |-> longUSD,
        exposto |-> totalEquityPerCoin - position.Size,
        percentProtegida |-> IF protecaoUSD > 0 /\ totalEquityPerCoin > 0
                             THEN Percent(protecaoUSD, totalEquityPerCoin) ELSE 0,
        percentLongada |-> IF longUSD > 0 /\ totalEquityPerCoin > 0
                           THEN Percent(longUSD, totalEquityPerCoin) ELSE 0]

RECURSIVE SumOf(_, _)
\* the running totals over the coin messages
SumOf(msgs, field) ==
    IF msgs = <<>> THEN 0 ELSE Head(msgs)[field] + SumOf(Tail(msgs), field)

\* the summary block is appended for any number of valid positions
ResumoGeralAlways(totalValidPositions) == TRUE

\* the summary block is appended unless exactly one position is valid
ResumoGeral(totalValidPositions) == totalValidPositions # 1

\* the orders in which range can visit the given symbols
Orders(S) == {o \in [1..Cardinality(S) -> S] : \A i, j \in 1..Cardinality(S) : o[i] = o[j] => i = j}

\* the text built for wallet, positions and an iteration order of the position map
SummaryText(lastWallet, positions, order, totalEquity) ==
    LET Valid(symbol) == IsValidPosition(lastWallet, symbol)
        valid == SelectSeq(order, Valid)
        coinMessages == [i \in 1..Len(valid) |->
                            CoinMessage(lastWallet, valid[i], positions[valid[i]])]
        protecao == SumOf(coinMessages, "protegido")
        long == SumOf(coinMessages, "long")
    IN [coinMessages |-> coinMessages,
        resumo |-> IF ResumoGeral(Len(valid))
                   THEN <<[carteira |-> totalEquity,
                           protecao |-> protecao,
                           long |-> long,
                           exposicao |-> SumOf(coinMessages, "exposto"),
                           percentProtegida |-> IF totalEquity > 0
                                                THEN Percent(protecao, totalEquity) ELSE 0,
                           percentLongada |-> IF long > 0 /\ totalEquity > 0
                                              THEN Percent(long, totalEquity) ELSE 0]>>
                   ELSE <<>>]

NoText == [coinMessages |-> <<>>, resumo |-> <<>>]

\* a total equity that does not parse abandons the flush
RenderSummaryNoFallback ==
    /\ ~out.done
    /\ \E order \in Orders(DOMAIN inp.positions) :
          out' = IF inp.lastWallet = <<>> \/ inp.lastWallet[1].TotalEquity.err
                 THEN [done |-> TRUE, sent |-> FALSE, text |-> NoText]
                 ELSE [done |-> TRUE, sent |-> TRUE,
                       text |-> SummaryText(inp.lastWallet[1], inp.positions, order,
                                            inp.lastWallet[1].TotalEquity.val)]
    /\ UNCHANGED <<now, connVars, bufVars, retryVars, session, proc, monitored, inp,
                   executionBuffer, arrived>>

\* processExecutionBuffer past the copy of the buffer: no wallet, or no total that
\* parses, sends nothing
RenderSummary ==
    /\ ~out.done
    /\ \E order \in Orders(DOMAIN inp.positions) :
          out' = IF inp.lastWallet = <<>>
                 THEN [done |-> TRUE, sent |-> FALSE, text |-> NoText]
                 ELSE LET lastWallet == inp.lastWallet[1]
                          totalEquity == IF ~lastWallet.TotalEquity.err
                                         THEN lastWallet.TotalEquity
                                         ELSE lastWallet.TotalWalletBalance
                      IN IF totalEquity.err
                         THEN [done |-> TRUE, sent |-> FALSE, text |-> NoText]
                         ELSE [done |-> TRUE, sent |-> TRUE,
                               text |-> SummaryText(lastWallet, inp.positions, order,
                                                    totalEquity.val)]
    /\ UNCHANGED <<now, connVars, bufVars, retryVars, session, proc, monitored, inp,
                   executionBuffer, arrived>>

InitRender ==
    /\ InitManager
    /\ retry = 0
    /\ inp \in [lastWallet : {<<>>} \cup {<<w>> : w \in SummaryWallets},
                positions : SummaryPositions]
    /\ out = [done |-> FALSE, sent |-> FALSE, text |-> NoText]
    /\ executionBuffer = NoExecutionBuffer

NextRender == RenderSummary

SpecRender == InitRender /\ [][NextRender]_vars

\* ----------------------------------------------------- order flush text
\* processOrderBuffer from the copied orders to the texts handed to sendNotification.
\* Prices and quantities are whole numbers that parse; an AvgPrice of 0 stands for
\* "" and "0".

\* order type, status, price and average price as they come together
PriceVariants ==
    {[OrderType |-> "Limit", OrderStatus |-> "New", Price |-> 100, AvgPrice |-> 0],
     [OrderType |-> "Limit", OrderStatus |-> "New", Price |-> 110, AvgPrice |-> 0],
     [OrderType |-> "Limit", OrderStatus |-> "Filled", Price |-> 100, AvgPrice |-> 110],
     [OrderType |-> "Market", OrderStatus |-> "Filled", Price |-> 0, AvgPrice |-> 100]}

BufferedOrders ==
    {[Symbol |-> symbol, ReduceOnly |-> reduceOnly, Side |-> side, Qty |-> qty,
      OrderType |-> v.OrderType, OrderStatus |-> v.OrderStatus,
      Price |-> v.Price, AvgPrice |-> v.AvgPrice] :
        symbol \in Symbols, reduceOnly \in BOOLEAN, side \in Sides, qty \in {1, 2},
        v \in PriceVariants}

\* buffer.orders at the flush: at least one order
OrderLists == UNION {[1..n -> BufferedOrders] : n \in 1..MaxOrders}

GroupKey(order) ==
    <<order.Symbol, IF order.ReduceOnly THEN "Reduce" ELSE "", order.Side, order.OrderType>>

GroupKeys(orders) == {GroupKey(orders[i]) : i \in 1..Len(orders)}

\* groups[key]: the orders of one key in arrival order
Group(orders, key) ==
    LET InGroup(order) == GroupKey(order) = key
    IN SelectSeq(orders, InGroup)

GetDisplayPrice(order) ==
    IF order.OrderType = "Market" /\ order.AvgPrice # 0 THEN order.AvgPrice
    ELSE IF /\ order.OrderType = "Limit"
            /\ order.AvgPrice # 0
            /\ (order.OrderStatus = "Filled" \/ order.OrderStatus = "PartiallyFilled")
         THEN order.AvgPrice
    ELSE order.Price

RECURSIVE PriceLoopFirstMin(_, _, _)
\* minPrice stays the price of the first order
PriceLoopFirstMin(groupOrders, i, acc) ==
    IF i > Len(groupOrders) THEN acc
    ELSE LET price == GetDisplayPrice(groupOrders[i])
             qty == groupOrders[i].Qty
         IN PriceLoopFirstMin(groupOrders, i + 1,
                      [minPrice |-> IF i = 1 THEN price ELSE acc.minPrice,
                       maxPrice |-> IF i = 1 \/ price > acc.maxPrice THEN price ELSE acc.maxPrice,
                       totalQty |-> acc.totalQty + qty])

RECURSIVE PriceLoop(_, _, _)
\* the loop over groupOrders from index i on: minPrice, maxPrice, totalQty
PriceLoop(groupOrders, i, acc) ==
    IF i > Len(groupOrders) THEN acc
    ELSE LET price == GetDisplayPrice(groupOrders[i])
             qty == groupOrders[i].Qty
         IN PriceLoop(groupOrders, i + 1,
                      [minPrice |-> IF i = 1 \/ price < acc.minPrice THEN price ELSE acc.minPrice,
                       maxPrice |-> IF i = 1 \/ price > acc.maxPrice THEN price ELSE acc.maxPrice,
                       totalQty |-> acc.totalQty + qty])

\* the message text of one group
GroupText(groupOrders) ==
    LET firstOrder == groupOrders[1]
        r == PriceLoop(groupOrders, 1, [minPrice |-> 0, maxPrice |-> 0, totalQty |-> 0])
        base == [count |-> Len(groupOrders),
                 Symbol |-> firstOrder.Symbol,
                 reducePrefix |-> IF firstOrder.ReduceOnly THEN "Reduce " ELSE "",
                 Side |-> firstOrder.Side,
                 OrderType |-> firstOrder.OrderType,
                 totalQty |-> r.totalQty]
    IN IF Len(groupOrders) = 1
       THEN [phrasing |-> "single", text |-> base, at |-> <<GetDisplayPrice(firstOrder)>>]
       ELSE IF r.minPrice = r.maxPrice
       THEN [phrasing |-> "uniform", text |-> base, at |-> <<GetDisplayPrice(firstOrder)>>]
       ELSE [phrasing |-> "range", text |-> base, at |-> <<r.minPrice, r.maxPrice>>]

\* the orders in which range can visit the groups
KeyOrders(K) == {o \in [1..Cardinality(K) -> K] : \A i, j \in 1..Cardinality(K) : o[i] = o[j] => i = j}

\* processOrderBuffer past the copy of the buffer: one sendNotification per group
FormatOrders ==
    /\ ~out.done
    /\ \E order \in KeyOrders(GroupKeys(inp)) :
          out' = [done |-> TRUE,
                  notifications |-> [g \in 1..Len(order) |-> GroupText(Group(inp, order[g]))]]
    /\ UNCHANGED <<now, connVars, bufVars, retryVars, session, proc, monitored, inp,
                   executionBuffer, arrived>>

InitFormat ==
    /\ InitManager
    /\ retry = 0
    /\ inp \in OrderLists
    /\ out = [done |-> FALSE, notifications |-> <<>>]
    /\ executionBuffer = NoExecutionBuffer

NextFormat == FormatOrders

SpecFormat == InitFormat /\ [][NextFormat]_vars

\* ------------------------------------------------- connectAndListen
\* One call of connectAndListen after the other inside the runConnection loop above:
\* session.sock is the socket the call dialled, session.Conn says that wsConn.Conn
\* refers to it, session.ping is the pingLoop the call started, session.stopping
\* counts the pingLoops whose stop channel is closed and that have not returned yet.

Successes == {"true", "false", "absent", "notbool"}

\* what authenticate meets: the write of the auth message, the read of one response,
\* and the success field of that response
AuthResponses == [writeErr : BOOLEAN, readErr : BOOLEAN, success : Successes]

\* authenticate returns an error
Authenticate(resp) ==
    IF resp.writeErr THEN TRUE
    ELSE IF resp.readErr THEN TRUE
    ELSE IF resp.success = "false" THEN TRUE
    ELSE IF resp.success = "true" THEN FALSE
    ELSE TRUE

\* what conn.ReadMessage returns when it fails: a close frame with its code, a
\* timeout, a read on a socket closed on this side
ReadErrors ==
    {"CloseNormalClosure", "CloseGoingAway", "CloseAbnormalClosure",
     "CloseInternalServerErr", "timeout", "closed"}

\* the return leaves the socket as it is
SessionExitNoClose(path, err) ==
    session' = [session EXCEPT !.pc = "returned",
                               !.ping = "none",
                               !.stopping = IF session.ping = "running" THEN @ + 1 ELSE @,
                               !.path = path,
                               !.err = err]

\* the deferred functions of connectAndListen (close(pingStopChan), socket closed and
\* wsConn.Conn cleared) and its return value
SessionExit(path, err) ==
    session' = [session EXCEPT !.pc = "returned",
                               !.sock = "closed",
                               !.Conn = FALSE,
                               !.ping = "none",
                               !.stopping = IF session.ping = "running" THEN @ + 1 ELSE @,
                               !.path = path,
                               !.err = err]

SessionUnchanged == UNCHANGED <<now, connVars, bufVars, retryVars, proc, monitored, inp, out,
                                executionBuffer, arrived>>

\* dialer.Dial: an error returns before any socket exists and before the defers
SessionDial ==
    /\ rpc = "connect"
    /\ session.dials < MaxSessions
    /\ session.attempt # retry
    /\ \/ session' = [NoSession EXCEPT !.pc = "returned", !.attempt = retry, !.path = "dial",
                                       !.err = TRUE, !.stopping = session.stopping,
                                       !.dials = session.dials + 1]
       \/ session' = [NoSession EXCEPT !.pc = "auth", !.attempt = retry, !.sock = "open",
                                       !.Conn = TRUE, !.stopping = session.stopping,
                                       !.dials = session.dials + 1]
    /\ SessionUnchanged

\* wsm.authenticate; nothing can be written to or read from a closed socket
SessionAuthenticate ==
    /\ session.pc = "auth"
    /\ \E resp \in AuthResponses :
          /\ session.sock = "open" \/ resp.writeErr
          /\ inp' = resp
          /\ IF Authenticate(resp)
             THEN SessionExit("auth", TRUE)
             ELSE session' = [session EXCEPT !.pc = "subscribe"]
    /\ UNCHANGED <<now, connVars, bufVars, retryVars, proc, monitored, out,
                   executionBuffer, arrived>>

\* conn.WriteJSON(subscribeMsg), then go wsm.pingLoop(conn, pingStopChan)
SessionSubscribe ==
    /\ session.pc = "subscribe"
    /\ \/ /\ session.sock = "open"
          /\ session' = [session EXCEPT !.pc = "read", !.ping = "running"]
       \/ SessionExit("subscribe", TRUE)
    /\ SessionUnchanged

\* the read loop: StopChan closed at the select, or ReadMessage fails (a text message
\* is handled and the loop comes back here)
SessionRead ==
    /\ session.pc = "read"
    /\ IF rStop
       THEN SessionExit("cancel", FALSE)
       ELSE \E readErr \in ReadErrors :
               /\ readErr = "closed" => session.sock = "closed"
               /\ session' = [session EXCEPT !.pc = "classify", !.readErr = readErr]
    /\ SessionUnchanged

\* the read error is an error whatever it is
SessionClassifyAllErrors ==
    /\ session.pc = "classify"
    /\ IF rStop THEN SessionExit("cancel", FALSE) ELSE SessionExit("read", TRUE)
    /\ SessionUnchanged

\* after a failed read: StopChan closed -> nil; normal or going-away close -> nil;
\* anything else -> wsConn.Conn cleared and an error
SessionClassify ==
    /\ session.pc = "classify"
    /\ IF rStop THEN SessionExit("cancel", FALSE)
       ELSE IF session.readErr \in {"CloseNormalClosure", "CloseGoingAway"}
       THEN SessionExit("close", FALSE)
       ELSE SessionExit("read", TRUE)
    /\ SessionUnchanged

\* a panic past the dial, turned into the returned error by the deferred recover
SessionFault ==
    /\ session.pc \in {"auth", "subscribe", "read", "classify"}
    /\ SessionExit("fault", TRUE)
    /\ SessionUnchanged

\* runConnection takes the return value
SessionReturns ==
    /\ session.pc = "returned"
    /\ session.attempt = retry
    /\ ConnectReturns(session.err)

\* StopConnection: close(StopChan) and conn.Conn.Close() when wsConn.Conn is set
SessionStop ==
    /\ ~rStop
    /\ rpc # "done"
    /\ rStop' = TRUE
    /\ session' = [session EXCEPT !.sock = IF session.Conn /\ @ = "open" THEN "closed" ELSE @]
    /\ UNCHANGED <<rpc, retry, retryDelay, consecutiveFailures, waitFor>>
    /\ UNCHANGED <<now, connVars, bufVars, proc, monitored, inp, out, executionBuffer, arrived>>

\* a pingLoop returns: its stop channel is closed
PingLoopStopped ==
    /\ session.stopping > 0
    /\ session' = [session EXCEPT !.stopping = @ - 1]
    /\ SessionUnchanged

\* a pingLoop returns: its write of a ping fails on the closed socket
PingLoopWriteFails ==
    /\ session.ping = "running"
    /\ session.sock = "closed"
    /\ session' = [session EXCEPT !.ping = "none"]
    /\ SessionUnchanged

NextSession ==
    \/ RunTop
    \/ Elapse
    \/ BackoffOver
    \/ SleepOver
    \/ SessionDial
    \/ SessionAuthenticate
    \/ SessionSubscribe
    \/ SessionRead
    \/ SessionClassify
    \/ SessionFault
    \/ SessionReturns
    \/ SessionStop
    \/ PingLoopStopped
    \/ PingLoopWriteFails

SpecSession == Init /\ [][NextSession]_vars

\* a pingLoop whose stop channel is closed gets to run
SpecSessionFair == SpecSession /\ WF_vars(PingLoopStopped)

\* ------------------------------------------------ cancellation of the retry loop

RECURSIVE RetryDelayAfter(_)
\* retryDelay after k failed attempts in a row from the start of the loop
RetryDelayAfter(k) ==
    IF k = 0 THEN InitialRetryDelay ELSE NextRetryDelay(RetryDelayAfter(k - 1))

\* the loop at the head of an iteration, every attempt so far having failed: at its
\* start, or one failure before the cooldown
InitCancel ==
    /\ InitRegistry
    /\ retry \in {0, MaxConsecutiveFailures - 1}
    /\ consecutiveFailures = retry
    /\ retryDelay = RetryDelayAfter(retry)
    /\ inp = <<>>
    /\ out = <<>>
    /\ executionBuffer = NoExecutionBuffer

\* the steps of the goroutine that runs runConnection; the loop is followed for
\* MaxSessions attempts and to the exit of a cancelled one
RunConnectionStep ==
    \/ (session.dials < MaxSessions \/ rStop) /\ RunTop
    \/ Elapse
    \/ CooldownOver
    \/ BackoffOver
    \/ SleepOver
    \/ SessionDial
    \/ SessionAuthenticate
    \/ SessionSubscribe
    \/ SessionRead
    \/ SessionClassify
    \/ SessionReturns

NextCancel ==
    \/ (session.dials < MaxSessions \/ rStop) /\ RunTop
    \/ Elapse
    \/ CooldownOver
    \/ BackoffOver
    \/ SleepOver
    \/ SessionDial
    \/ SessionAuthenticate
    \/ SessionSubscribe
    \/ SessionRead
    \/ SessionClassify
    \/ SessionFault
    \/ SessionReturns
    \/ SessionStop
    \/ PingLoopStopped
    \/ PingLoopWriteFails

SpecCancel == InitCancel /\ [][NextCancel]_vars

\* the goroutine is scheduled, and its dial, reads and waits end within their deadlines
SpecCancelFair == SpecCancel /\ WF_vars(RunConnectionStep)

\* C11: the consecutive-failure counter never exceeds 10; with the counter at 10 the
\* loop resets it to 0 and the delay to 5 s and waits the whole 30 s cooldown before
\* it attempts again; a connect-and-serve that returns without error resets it too.
C11_CooldownAtTenFailures ==
    /\ [](consecutiveFailures <= MaxConsecutiveFailures)
    /\ [](rpc = "connect" => consecutiveFailures < MaxConsecutiveFailures)
    /\ [][(RunTop /\ ~rStop /\ consecutiveFailures >= MaxConsecutiveFailures) =>
            /\ rpc' = "cooldown"
            /\ waitFor' = CooldownDelay
            /\ retryDelay' = InitialRetryDelay
            /\ consecutiveFailures' = 0]_vars
    /\ [][(rpc = "cooldown" /\ rpc' = "connect") => waitFor = 0]_vars
    /\ [][ConnectReturns(FALSE) => consecutiveFailures' = 0]_vars

\* the loop has entered the cooldown
C11_Witness ==
    /\ rpc = "cooldown"
    /\ waitFor = CooldownDelay
    /\ consecutiveFailures = 0
    /\ retryDelay = InitialRetryDelay

\* C12: when connect-and-serve returns without error and no stop was signalled, the
\* delay goes back to 5 s and the loop waits those 5 s, whatever the delay earlier
\* failures had reached, before it starts the next attempt.
C12_CleanCloseShortDelay ==
    /\ [][(ConnectReturns(FALSE) /\ ~rStop) =>
            /\ rpc' = "sleep"
            /\ waitFor' = InitialRetryDelay
            /\ retryDelay' = InitialRetryDelay]_vars
    /\ [][(rpc = "sleep" /\ rpc' # "sleep") =>
            /\ waitFor = 0
            /\ rpc' = "top"
            /\ retryDelay' = InitialRetryDelay]_vars

\* the loop waits the initial delay after a clean close in a later iteration
C12_Witness ==
    /\ rpc = "sleep"
    /\ waitFor = InitialRetryDelay
    /\ retryDelay = InitialRetryDelay
    /\ retry >= 2

\* C13: a stop signalled during any of the loop's waits (cooldown, backoff, wait
\* after a clean close) ends the wait at once: no more of it elapses and the loop's
\* next step is its return.
C13_WaitsInterruptible ==
    [][(rStop /\ rpc \in Waits /\ waitFor > 0) =>
          (rpc' = "done" \/ UNCHANGED <<rpc, waitFor>>)]_vars

\* C15: the loop ends only when stop was signalled.
C15_LoopRunsUntilStop ==
    rpc = "exhausted" => rStop

\* C16: every account that was monitored when the process ended, by whichever path,
\* is started when the process starts again.
C16_MonitoredRestoredAtStart ==
    [][Boot => \A a \in monitored : connections'[a] # 0]_vars

\* the calls the handled message caused for its element i
CallsFor(i) == {j \in 1..Len(out.calls) : out.calls[j].idx = i}

Buffering == {"addOrderToBuffer", "addCancelToBuffer"}

\* C17: an inverse element in Untriggered status with an accepted rejection code gets,
\* within the dispatch of its message, exactly one call and that call is the immediate
\* stop notification, never an append to the order or cancel buffer, whatever the
\* other elements of the message are.
C17_UntriggeredStopImmediate ==
    out.done =>
       \A i \in 1..Len(inp) :
          (/\ inp[i].Category = "inverse"
           /\ inp[i].RejectReason \in {"", "EC_NoError", "EC_PerCancelRequest"}
           /\ inp[i].OrderStatus = "Untriggered") =>
             /\ Cardinality(CallsFor(i)) = 1
             /\ \A j \in CallsFor(i) : out.calls[j].call = "processStopOrder"

\* a handled message held an untriggered stop next to an element that was buffered
C17_Witness ==
    /\ out.done
    /\ \E i, k \in 1..Len(inp) :
          /\ inp[i].OrderStatus = "Untriggered"
          /\ \E j \in CallsFor(i) : out.calls[j].call = "processStopOrder"
          /\ \E j \in CallsFor(k) : out.calls[j].call \in Buffering

\* C18: an element whose rejection code is non-empty and not one of the two accepted
\* codes causes no call at all (no notification, no append, hence no timer), whatever
\* its status.
C18_RejectedDropped ==
    out.done =>
       \A i \in 1..Len(inp) :
          inp[i].RejectReason \notin {"", "EC_NoError", "EC_PerCancelRequest"} =>
             CallsFor(i) = {}

\* a handled message held a rejected inverse untriggered stop, which caused no call,
\* next to an element that caused one
C18_Witness ==
    /\ out.done
    /\ \E i, k \in 1..Len(inp) :
          /\ inp[i].Category = "inverse"
          /\ inp[i].OrderStatus = "Untriggered"
          /\ inp[i].RejectReason = "EC_PostOnlyWillTakeLiquidity"
          /\ CallsFor(i) = {}
          /\ CallsFor(k) # {}

\* C19: when a unified wallet payload arrives at a buffer that already holds a wallet,
\* every coin code afterwards has the payload's balance if the payload carries the
\* coin and the balance it had before otherwise; in particular no coin disappears.
C19_WalletMerged ==
    (out.done /\ out.before # <<>> /\ inp[1].AccountType = "UNIFIED") =>
       /\ executionBuffer.lastWallet # <<>>
       /\ \A coin \in Coins :
             CoinValue(executionBuffer.lastWallet[1].Coin, coin) =
                IF HasCoin(inp[1].Coin, coin)
                THEN CoinValue(inp[1].Coin, coin)
                ELSE CoinValue(out.before[1].Coin, coin)

\* {BTC:1, ETH:2} merged with {ETH:3, SOL:4} gave BTC:1, ETH:3, SOL:4
C19_Witness ==
    /\ out.done
    /\ out.before # <<>>
    /\ out.before[1].Coin = <<[Coin |-> "BTC", UsdValue |-> 1], [Coin |-> "ETH", UsdValue |-> 2]>>
    /\ inp[1].AccountType = "UNIFIED"
    /\ inp[1].Coin = <<[Coin |-> "ETH", UsdValue |-> 3], [Coin |-> "SOL", UsdValue |-> 4]>>
    /\ executionBuffer.lastWallet # <<>>
    /\ executionBuffer.lastWallet[1].Coin =
          <<[Coin |-> "BTC", UsdValue |-> 1], [Coin |-> "ETH", UsdValue |-> 3],
            [Coin |-> "SOL", UsdValue |-> 4]>>

\* C20: whatever the order in which position, wallet and execution messages arrive,
\* a summary flush is computed from the latest position of every symbol an inverse
\* position element arrived for and from the merge of all unified wallet payloads
\* that arrived, those that arrived before the first qualifying execution included.
C20_FlushUsesLatest ==
    [][ProcessExecutionBuffer =>
          /\ out'.positions = arrived.positions
          /\ out'.lastWallet = arrived.lastWallet]_vars

\* the message holds an execution element of the inverse category with exec-type Trade
Qualifying(msg) ==
    \E i \in 1..Len(msg) :
       /\ "ExecType" \in DOMAIN msg[i]
       /\ msg[i].Category = "inverse"
       /\ msg[i].ExecType = "Trade"

SummaryWallet == inp.lastWallet[1]

\* the symbols with a buffered position whose coin balance reaches the threshold
QualifyingSymbols ==
    {symbol \in DOMAIN inp.positions :
        CoinValue(SummaryWallet.Coin, CoinOf(symbol)) >= DustThreshold}

\* the symbols that have a block in the text
Reported == {out.text.coinMessages[i].symbol : i \in 1..Len(out.text.coinMessages)}

\* C22 (as stated): a position whose coin balance is below 10 has no block in the
\* summary, and a summary without any qualifying symbol has no wallet-wide block.
C22_DustExcludedNoSummary ==
    (out.done /\ out.sent) =>
       /\ Reported = QualifyingSymbols
       /\ QualifyingSymbols = {} => out.text.resumo = <<>>

\* C22 (amended): a position whose coin balance is below 10 has no block in the
\* summary, and a summary without any qualifying symbol consists of the wallet-wide
\* block alone, with protection, long and exposure totals of zero.
C22_DustExcludedSummaryAlone ==
    (out.done /\ out.sent) =>
       /\ Reported = QualifyingSymbols
       /\ QualifyingSymbols = {} =>
             /\ out.text.coinMessages = <<>>
             /\ out.text.resumo # <<>>
             /\ out.text.resumo[1].protecao = 0
             /\ out.text.resumo[1].long = 0
             /\ out.text.resumo[1].exposicao = 0

\* a summary was sent for a buffer whose only position, BTCUSD, has a BTC balance of 5
C22_Witness ==
    /\ out.done
    /\ out.sent
    /\ DOMAIN inp.positions = {"BTCUSD"}
    /\ CoinValue(SummaryWallet.Coin, "BTC") = 5
    /\ out.text.coinMessages = <<>>
    /\ out.text.resumo # <<>>

RECURSIVE TotalOver(_, _)
\* the sum of amount[symbol] over the symbols of S
TotalOver(S, amount) ==
    IF S = {} THEN 0
    ELSE LET symbol == CHOOSE x \in S : TRUE
         IN amount[symbol] + TotalOver(S \ {symbol}, amount)

Protected == [symbol \in DOMAIN inp.positions |->
                 IF inp.positions[symbol].Side = "Sell" THEN inp.positions[symbol].Size ELSE 0]

Longed == [symbol \in DOMAIN inp.positions |->
              IF inp.positions[symbol].Side = "Sell" THEN 0 ELSE inp.positions[symbol].Size]

Exposed == [symbol \in DOMAIN inp.positions |->
               CoinValue(SummaryWallet.Coin, CoinOf(symbol)) - inp.positions[symbol].Size]

\* C23: a summary that is sent has the wallet-wide block iff the number of qualifying
\* symbols is not exactly one, and the block's protection, long and exposure totals
\* are the sums over the qualifying symbols only.
C23_SummaryUnlessOneSymbol ==
    (out.done /\ out.sent) =>
       /\ out.text.resumo = <<>> <=> Cardinality(QualifyingSymbols) = 1
       /\ out.text.resumo # <<>> =>
             /\ out.text.resumo[1].protecao = TotalOver(QualifyingSymbols, Protected)
             /\ out.text.resumo[1].long = TotalOver(QualifyingSymbols, Longed)
             /\ out.text.resumo[1].exposicao = TotalOver(QualifyingSymbols, Exposed)

\* two positions are buffered, one of them dust: the text has one block and no
\* wallet-wide block
C23_Witness ==
    /\ out.done
    /\ out.sent
    /\ DOMAIN inp.positions = Symbols
    /\ Cardinality(QualifyingSymbols) = 1
    /\ Len(out.text.coinMessages) = 1
    /\ out.text.resumo = <<>>

\* C24: the summary callback runs only with the timer armed and leaves the buffer in
\* place with the positions and the wallet it held, which are what the callback
\* computes from; the timer is not armed afterwards, so the next callback needs a new
\* qualifying execution (C21).
C24_FlushKeepsBuffer ==
    [][ProcessExecutionBuffer =>
          /\ executionBuffer.timer
          /\ executionBuffer'.exists
          /\ executionBuffer'.positions = executionBuffer.positions
          /\ executionBuffer'.lastWallet = executionBuffer.lastWallet
          /\ ~executionBuffer'.timer
          /\ out'.positions = executionBuffer.positions
          /\ out'.lastWallet = executionBuffer.lastWallet]_vars

\* a second callback, due 5 minutes after an execution that followed the first one,
\* has computed from the wallet the buffer still holds
C24_Witness ==
    /\ out.done
    /\ now >= 2 * ExecWindow
    /\ ~executionBuffer.timer
    /\ executionBuffer.lastWallet # <<>>
    /\ out.lastWallet = executionBuffer.lastWallet
    /\ inp # <<>>
    /\ Qualifying(inp)

\* C25: one flush of the order buffer hands exactly one notification to the sink,
\* whatever the number of groups its orders form.
C25_OneNotificationPerFlush ==
    out.done => Len(out.notifications) = 1

\* the buffered orders a notification was rendered from
GroupOfText(n) ==
    LET t == out.notifications[n].text
        Same(order) == /\ order.Symbol = t.Symbol
                       /\ order.ReduceOnly = (t.reducePrefix # "")
                       /\ order.Side = t.Side
                       /\ order.OrderType = t.OrderType
    IN SelectSeq(inp, Same)

\* the display price of an order: the average fill price of a Market order and of a
\* filled Limit order when there is one, its price otherwise
DisplayPrices(group) ==
    {IF /\ group[i].AvgPrice # 0
        /\ \/ group[i].OrderType = "Market"
           \/ group[i].OrderType = "Limit" /\ group[i].OrderStatus \in {"Filled", "PartiallyFilled"}
     THEN group[i].AvgPrice ELSE group[i].Price : i \in 1..Len(group)}

AuthStep ==
    /\ session.pc = "auth"
    /\ session'.pc = "subscribe" \/ (session'.pc = "returned" /\ session'.path = "auth")
    /\ ~inp'.writeErr
    /\ ~inp'.readErr

\* C27: with a response read, authentication fails iff the response carries
\* success=false; every other response (success=true, no success field) is accepted
\* and the session goes on to subscribe.
C27_AuthFailsIffSuccessFalse ==
    [][AuthStep => (session'.pc = "returned" <=> inp'.success = "false")]_vars

\* C28: once connectAndListen has returned, by whichever path, the socket it dialled
\* is closed (none exists after a dial failure), wsConn.Conn is nil and the pingLoop it
\* started has its stop channel closed; and every pingLoop whose stop channel is closed
\* returns.
C28_ExitClosesSocket ==
    /\ [](session.pc = "returned" =>
             /\ session.path = "dial" => session.sock = "none"
             /\ session.path # "dial" => session.sock = "closed"
             /\ ~session.Conn
             /\ session.ping # "running")
    /\ (session.stopping > 0 ~> session.stopping = 0)

\* a session that served has returned on a read error and its pingLoop, told to stop,
\* has not returned yet
C28_Witness ==
    /\ session.pc = "returned"
    /\ session.path = "read"
    /\ session.sock = "closed"
    /\ session.stopping = 1

\* the read loop returns
ReadReturn ==
    /\ session.pc \in {"read", "classify"}
    /\ session'.pc = "returned"
    /\ session'.path # "fault"

\* runConnection takes the error of a failed read
FailedReadTaken ==
    /\ session.pc = "returned"
    /\ session.path = "read"
    /\ rpc = "connect"
    /\ rpc' # "connect"

\* C29: the read loop returns nil when StopChan is closed, whatever the read gave;
\* otherwise nil after a close with the normal or going-away code, and an error with
\* wsConn.Conn cleared after any other failed read; runConnection, unless stopped by
\* then, counts that error as a failure and waits the backoff delay.
C29_ReadExitClassified ==
    [][/\ ReadReturn =>
             /\ rStop => ~session'.err
             /\ ~rStop => (session'.err <=>
                              session.readErr \notin {"CloseNormalClosure", "CloseGoingAway"})
             /\ session'.err => ~session'.Conn
       /\ (FailedReadTaken /\ ~rStop) =>
             /\ consecutiveFailures' = consecutiveFailures + 1
             /\ rpc' = "backoff"
             /\ waitFor' = retryDelay]_vars

\* an abnormal close ended the first session and was counted as the first failure
C29_Witness ==
    /\ session.path = "read"
    /\ session.readErr = "CloseAbnormalClosure"
    /\ session.err
    /\ ~session.Conn
    /\ rpc = "backoff"
    /\ consecutiveFailures = 1

\* the element passes the category, rejection-code, stop-status and created-by-stop
\* filters
PassesFilters(el) ==
    /\ el.Category = "inverse"
    /\ el.RejectReason \in {"", "EC_NoError", "EC_PerCancelRequest"}
    /\ el.OrderStatus \notin {"Untriggered", "Deactivated"}
    /\ el.CreateType # "CreateByStopOrder"

OrderBufferCondition(el) ==
    \/ el.OrderStatus = "New"
    \/ el.OrderType = "Market" /\ el.OrderStatus \in {"Filled", "PartiallyFilled"}
    \/ /\ el.OrderType = "Limit"
       /\ el.OrderStatus \in {"Filled", "PartiallyFilled"}
       /\ el.TimeDiff >= 0 /\ el.TimeDiff <= 3000

CancelBufferCondition(el) ==
    \/ el.OrderStatus = "Cancelled"
    \/ el.CancelType # "" /\ el.StopOrderType # "Stop" /\ el.OrderStatus # "Filled"

\* C30: an element that passes the four filters is appended to the order buffer if it
\* meets the order-buffer condition, otherwise to the cancel buffer if it meets the
\* cancel-buffer condition, and to no buffer if it meets neither.
C30_BufferRouting ==
    (out.done /\ PassesFilters(inp[1])) =>
       /\ OrderBufferCondition(inp[1]) =>
             out.calls = <<[idx |-> 1, call |-> "addOrderToBuffer"]>>
       /\ (~OrderBufferCondition(inp[1]) /\ CancelBufferCondition(inp[1])) =>
             out.calls = <<[idx |-> 1, call |-> "addCancelToBuffer"]>>
       /\ (~OrderBufferCondition(inp[1]) /\ ~CancelBufferCondition(inp[1])) =>
             out.calls = <<>>

\* a Limit order filled 3000 ms after its creation was appended to the order buffer
C30_Witness ==
    /\ out.done
    /\ PassesFilters(inp[1])
    /\ inp[1].OrderType = "Limit"
    /\ inp[1].OrderStatus = "Filled"
    /\ inp[1].TimeDiff = 3000
    /\ out.calls = <<[idx |-> 1, call |-> "addOrderToBuffer"]>>

\* the calls the handler made that name a buffer
BufferCalls == {j \in 1..Len(out.calls) :
                   out.calls[j].call \in {"addOrderToBuffer", "addCancelToBuffer"}}

\* C31: the handler makes at most one call for an element, so no element is appended
\* to both buffers, and an element past the filters that meets both buffer conditions
\* is appended to the order buffer only.
C31_OneOutcomePerElement ==
    out.done =>
       /\ Len(out.calls) <= 1
       /\ \A j \in 1..Len(out.calls) :
             out.calls[j].call \in {"processStopOrder", "processStopCancellation",
                                    "addOrderToBuffer", "addCancelToBuffer"}
       /\ (PassesFilters(inp[1]) /\ OrderBufferCondition(inp[1])
              /\ CancelBufferCondition(inp[1])) =>
             \A j \in BufferCalls : out.calls[j].call = "addOrderToBuffer"

\* an order in status New with a cancel-type was appended to the order buffer
C31_Witness ==
    /\ out.done
    /\ PassesFilters(inp[1])
    /\ inp[1].OrderStatus = "New"
    /\ inp[1].CancelType # ""
    /\ inp[1].StopOrderType # "Stop"
    /\ out.calls = <<[idx |-> 1, call |-> "addOrderToBuffer"]>>

\* the element passes the category and rejection-code filters
PassesOuterFilters(el) ==
    /\ el.Category = "inverse"
    /\ el.RejectReason \in {"", "EC_NoError", "EC_PerCancelRequest"}

\* C32: an element created by a triggered stop that passes the category and
\* rejection-code filters gets the immediate stop notification when its status is
\* Untriggered, the stop-cancellation notification when it is Deactivated, and
\* otherwise no call at all: no buffer and no notification.
C32_CreatedByStopDropped ==
    (out.done /\ PassesOuterFilters(inp[1]) /\ inp[1].CreateType = "CreateByStopOrder") =>
       out.calls =
          IF inp[1].OrderStatus = "Untriggered"
          THEN <<[idx |-> 1, call |-> "processStopOrder"]>>
          ELSE IF inp[1].OrderStatus = "Deactivated"
          THEN <<[idx |-> 1, call |-> "processStopCancellation"]>>
          ELSE <<>>

\* a deactivated element created by a triggered stop was reported as a stop
\* cancellation
C32_Witness ==
    /\ out.done
    /\ PassesOuterFilters(inp[1])
    /\ inp[1].CreateType = "CreateByStopOrder"
    /\ inp[1].OrderStatus = "Deactivated"
    /\ out.calls = <<[idx |-> 1, call |-> "processStopCancellation"]>>

HandlerName(topic) ==
    CASE topic = "order" -> "handleOrderMessage"
      [] topic = "execution" -> "handleExecutionMessage"
      [] topic = "position" -> "handlePositionMessage"
      [] topic = "wallet" -> "handleWalletMessage"

\* the positions in the fixed order whose schema decodes the frame and whose topic is
\* the frame's
MatchingTopics(frame) ==
    {i \in 1..Len(TopicOrder) :
        frame.decodes[TopicOrder[i]] /\ frame.topic = TopicOrder[i]}

\* C33: a frame is handed to at most one handler: none when its op is auth, subscribe,
\* ping or pong, whatever its topic; otherwise the handler of the first topic in the
\* order order, execution, position, wallet whose schema decodes and whose topic
\* matches; none when no topic matches.
C33_OneHandlerPerFrame ==
    out.done =>
       IF inp.op \in {"auth", "subscribe", "ping", "pong"} THEN out.handler = "none"
       ELSE IF MatchingTopics(inp) = {} THEN out.handler = "none"
       ELSE \E i \in MatchingTopics(inp) :
               /\ \A k \in MatchingTopics(inp) : i <= k
               /\ out.handler = HandlerName(TopicOrder[i])

\* a pong frame that also carries the order topic reached no handler
C33_Witness ==
    /\ out.done
    /\ inp.op = "pong"
    /\ inp.topic = "order"
    /\ inp.decodes["order"]
    /\ out.handler = "none"

\* C34: while the delivery of an immediate stop notification is outstanding and a
\* further frame is waiting on the connection, the read loop can read and route that
\* frame.
C34_DispatchNotBlockedBySink ==
    (out.pc = "post" /\ out.next <= Len(inp)) => ENABLED ReadFrame

\* the timers of account a's pipeline k that are armed: not fired and not stopped
PendingTimers(a, k) ==
    {e \in EventIds : /\ timer[e].state = "armed"
                      /\ event[e].acct = a
                      /\ event[e].kind = k}

\* C35: each account has at most one pending flush timer per pipeline.
C35_OnePendingTimerPerPipeline ==
    \A a \in Accounts, k \in Kinds : Cardinality(PendingTimers(a, k)) <= 1

\* C36: the summary flush sends nothing without a wallet snapshot or when neither
\* total parses; when the total equity does not parse and the total wallet balance
\* does, it sends, and the portfolio block is computed against the total wallet
\* balance.
C36_SummaryNeedsWalletTotal ==
    out.done =>
       /\ inp.lastWallet = <<>> => ~out.sent
       /\ inp.lastWallet # <<>> =>
             /\ (SummaryWallet.TotalEquity.err /\ SummaryWallet.TotalWalletBalance.err)
                   => ~out.sent
             /\ (SummaryWallet.TotalEquity.err /\ ~SummaryWallet.TotalWalletBalance.err) =>
                   /\ out.sent
                   /\ \A i \in 1..Len(out.text.resumo) :
                         LET resumo == out.text.resumo[i]
                             total == SummaryWallet.TotalWalletBalance.val
                         IN /\ resumo.carteira = total
                            /\ resumo.percentProtegida = Percent(resumo.protecao, total)
                            /\ resumo.long > 0 =>
                                  resumo.percentLongada = Percent(resumo.long, total)

\* a summary with a portfolio block and some protection was sent from a wallet whose
\* total equity does not parse
C36_Witness ==
    /\ out.done
    /\ inp.lastWallet # <<>>
    /\ SummaryWallet.TotalEquity.err
    /\ ~SummaryWallet.TotalWalletBalance.err
    /\ out.sent
    /\ out.text.resumo # <<>>
    /\ out.text.resumo[1].protecao > 0
    /\ out.text.resumo[1].carteira = 200

\* the one order in which the locks are taken
LockRank(lock) ==
    CASE lock = "mu" -> 1
      [] lock = "connMu" -> 2
      [] lock = "bufferMu" -> 3
      [] OTHER -> 4

\* task t is inside Lock or RLock on a lock it cannot get now
Blocked(t) ==
    /\ ~Finished(t)
    /\ NextOp(t).op \in {"Lock", "RLock"}
    /\ ~CanAcquire(t)

\* task t has no step to take until another task releases a lock
WaitsForLock(t) == Blocked(t) /\ (NextOp(t) = Op("Lock", "mu") => t \in out.waiting)

\* C37: while a task is unfinished some task can take a step, and a task asks for a
\* lock only while every lock it holds comes earlier in the order registry lock,
\* connection lock, buffer-map lock, per-buffer lock; so none waits for the buffer-map
\* lock or the registry lock while it holds a per-buffer lock.
C37_NoDeadlock ==
    /\ (\E t \in Tasks : ~Finished(t)) =>
          \E t \in Tasks : ~Finished(t) /\ ~WaitsForLock(t)
    /\ \A t \in Tasks :
          (~Finished(t) /\ NextOp(t).op \in {"Lock", "RLock"}) =>
             \A lock \in Locks :
                (Holds(t, lock) \/ HoldsRead(t, lock)) =>
                   LockRank(lock) < LockRank(NextOp(t).lock)

\* a stop that holds the registry lock waits for the buffer-map lock, which a flush
\* callback holds together with a buffer's lock, while an append waits for that buffer
C37_Witness ==
    \E s, f, a \in Tasks :
       /\ Holds(s, "mu") /\ Blocked(s) /\ NextOp(s).lock = "bufferMu"
       /\ Holds(f, "bufferMu") /\ Holds(f, "orderMu")
       /\ Blocked(a) /\ NextOp(a).lock = "orderMu"

C39_StopChanClosedOnce ==
    /\ \A c \in ConnIds : wsConn[c].StopChan \in {"open", "closed"}
    /\ \A a \in Accounts :
          connections[a] # 0 =>
             /\ wsConn[connections[a]].Running
             /\ wsConn[connections[a]].StopChan = "open"
    /\ \A a \in Accounts : IsConnectionActive(a) <=> connections[a] # 0

\* an account was stopped and started again: its first connection is closed, its
\* second is in the registry
C39_Witness ==
    \E a \in Accounts, c, d \in ConnIds :
       /\ c # d
       /\ wsConn[c].AccountID = a
       /\ wsConn[c].StopChan = "closed"
       /\ ~wsConn[c].Running
       /\ connections[a] = d

\* C40: a start that fails, because the account has an entry or because the store
\* does not return the account, leaves the registry, the connections, the buffers
\* with their timers and the stored active flags as they were and starts no loop.
C40_FailedStartChangesNothing ==
    [][\A a \in Accounts :
          (StartConnection(a) /\ ret' # "ok") =>
             /\ ret' \in {"already active", "not found"}
             /\ UNCHANGED <<connections, wsConn, nConns, activeConnections, pc, sock>>
             /\ UNCHANGED bufVars]_vars

\* a start failed on the store while another account had a registered buffer with an
\* armed timer
C40_Witness ==
    /\ ret = "not found"
    /\ \E a \in Accounts, k \in Kinds :
          /\ buffers[k][a] # 0
          /\ buf[buffers[k][a]].timer # 0
          /\ timer[buf[buffers[k][a]].timer].state = "armed"

====
